---- MODULE Spec2Model ----
(***************************************************************************)
(* A model of juju/lru: the arena-backed LRU cache (src/strings.go lines   *)
(* 217-363), the container/list LRU it replaces (lines 365-451) and the    *)
(* StringCache (lines 1-215).                                              *)
(*                                                                         *)
(* Keys are the integers 1..MaxKey, the nil key is 0.  Values are opaque   *)
(* payload: the two strings of Values, the nil value is "nil".             *)
(***************************************************************************)
EXTENDS Integers, Sequences, FiniteSets, TLC

\* ------------------------------------------------------------------ bounds
\* Largest capacity New is called with in Spec.
MaxCap == 2
\* Keys passed to Add/Get/Peek in Spec are 1..MaxKey.
MaxKey == 3
\* Largest capacity NewStringCache is called with in SpecSC.
MaxCapSC == 2
\* String contents passed to Intern/Contains in SpecSC are 1..MaxContent.
MaxContent == 3
\* SpecSC makes at most MaxInterns Intern calls with a freely chosen string.
MaxInterns == 4
\* The sequential driver of SpecSC interns at most MaxBurst fresh strings.
MaxBurst == 103
\* On a cache larger than its first arena SpecSC makes at most MaxFreeGrow
\* Intern calls with a freely chosen string.
MaxFreeGrow == 2
\* SpecMT starts MaxThreads goroutines on one StringCache.
MaxThreads == 2
\* Each goroutine of SpecMT makes MaxThreadCalls Intern calls.
MaxThreadCalls == 3
\* Each of the two goroutines of SpecRace makes at most MaxRaceCalls Intern calls.
MaxRaceCalls == 1
\* The capacity of the StringCache whose structure SpecCorrupt draws freely.
MaxCorruptCap == 2
\* Largest capacity New is called with in SpecScen.
MaxCapScen == 3
\* Keys passed to Add/Get in SpecScen are 1..MaxKeyScen.
MaxKeyScen == 4
\* Keys passed to Add/Get/Peek in SpecNew are 1..MaxKeyNew.
MaxKeyNew == 2

\* ---------------------------------------------------------- Go integers
\* TLC's integers are 32 bits wide; a Go int (64 bits) that can exceed them is
\* the record [hi, lo] standing for hi * 2^16 + lo with lo in 0..2^16-1.
Base == 256 * 256
FromInt(i) == [hi |-> i \div Base, lo |-> i % Base]
ToInt(a) == a.hi * Base + a.lo
BigLT(a, b) == a.hi < b.hi \/ (a.hi = b.hi /\ a.lo < b.lo)
BigLE(a, b) == a = b \/ BigLT(a, b)
BigGT(a, b) == BigLT(b, a)
\* a + i for a small i
BigAdd(a, i) == [hi |-> a.hi + ((a.lo + i) \div Base), lo |-> (a.lo + i) % Base]
\* uint32(a): a modulo 2^32
BigUint32(a) == [hi |-> a.hi % Base, lo |-> a.lo]
\* uint32(n) of an int n that fits TLC's integers; the result must fit them too
uint32(n) == ToInt(BigUint32(FromInt(n)))
\* min(i, a) of a small i and a Go int a
MinIntBig(i, a) == IF BigLT(FromInt(i), a) THEN i ELSE ToInt(a)

\* ------------------------------------------------------- program constants
\* 1 << 32
TwoTo32 == [hi |-> Base, lo |-> 0]
\* const maxLRUSize = (1<<32 - 1)
maxLRUSize == BigAdd(TwoTo32, -1)
\* if initialBufSize > 100 { initialBufSize = 101 }
initialBufLimit == 100
initialBufMax == 101

NilKey == 0
NilValue == "nil"
Values == {"a", "b"}
Keys == 1..MaxKey
KeysNew == 1..MaxKeyNew
KeysScen == 1..MaxKeyScen
\* Capacities New is called with in Spec: an invalid one and the valid 1..MaxCap.
Capacities == {FromInt(n) : n \in 0..MaxCap}
\* Capacities New is called with in SpecScen.
CapacitiesScen == {FromInt(n) : n \in 1..MaxCapScen}
\* Capacities New is called with in SpecNew: both edges of the accepted range.
EdgeCapacities == {FromInt(-1), FromInt(0), FromInt(1), BigAdd(maxLRUSize, -1),
                   maxLRUSize, BigAdd(maxLRUSize, 1), BigAdd(maxLRUSize, 2)}

\* Capacities above initialBufLimit, where the arena starts smaller than the
\* capacity and grows: by tripling capped at the capacity, by tripling uncapped.
GrowCapacities == {FromInt(initialBufLimit + 1), FromInt(3 * initialBufLimit + 1)}

\* The same for the LRU, whose arena doubles: capped at the capacity, uncapped.
GrowCapacitiesLRU == {FromInt(initialBufLimit + 1), FromInt(2 * initialBufLimit + 1)}

\* ------------------------------------------------------------------- state
VARIABLES
    pc,         \* "start" before New, "ready" once New returned, "panic" after a panic
    newArg,     \* the size New was called with
    size,       \* LRU.size
    maxSize,    \* LRU.maxSize
    buf,        \* LRU.buf: slot index -> cacheEntry; LRU.root is &buf[0]
    elements,   \* LRU.elements: key -> slot index
    lastOp,     \* the call that produced this state
    ret,        \* what that call returned
    evicted,    \* the key that call removed from elements (NilKey: none)
    lstMaxSize, \* container/list LRU: LRU.maxSize
    lstKeys,    \* container/list LRU: LRU.keys, front first
    lstValues,  \* container/list LRU: LRU.values, key -> value
    lstRet,     \* what the same call returned on the container/list LRU
    touchOrder, \* history: every key ever touched, most recently touched first
    touched,    \* history: the keys of the Add calls and of the Get calls that hit, latest first
    lastAdded,  \* history: key -> the value of the most recent Add of it
    scen,       \* history: the calls so far while they follow the test scenario
    scPc,       \* StringCache: "start", "ready" once NewStringCache returned, "panic"
    scNewArg,   \* the size NewStringCache was called with
    scMaxSize,  \* StringCache.maxSize
    scSize,     \* StringCache.size
    hitCount,   \* StringCache.hitCount
    missCount,  \* StringCache.missCount
    scBuf,      \* StringCache.buf: slot index -> stringElem; StringCache.root is &buf[0]
    scValues,   \* StringCache.values: string content -> slot index
    scLastOp,   \* the StringCache call that produced this state
    scRet,      \* what that call returned
    scHist,     \* history of the Intern calls since NewStringCache
    mu,         \* the sync.Mutex shared by the goroutines: its holder, 0 when unlocked
    thr,        \* goroutine -> where it is in its loop and in its Intern call
    raced       \* history: an Intern call began while another was in progress

lruVars == <<pc, newArg, size, maxSize, buf, elements, lastOp, ret, evicted,
             lstMaxSize, lstKeys, lstValues, lstRet, touchOrder, touched,
             lastAdded, scen>>
scVars == <<scPc, scNewArg, scMaxSize, scSize, hitCount, missCount, scBuf, scValues,
            scLastOp, scRet, scHist>>
mtVars == <<mu, thr, raced>>
vars == <<lruVars, scVars, mtVars>>

\* type cacheEntry struct { prev, next uint32; key, value interface{} }
cacheEntry == [prev |-> 0, next |-> 0, key |-> NilKey, value |-> NilValue]

\* make([]cacheEntry, n)
MakeBuf(n) == [i \in 0..(n - 1) |-> cacheEntry]
BufLen(b) == Cardinality(DOMAIN b)

\* The LRU object as one record.
Cache == [pc |-> pc, size |-> size, maxSize |-> maxSize, buf |-> buf, elements |-> elements]

\* map helpers
EmptyMap == [x \in {} |-> 0]
\* m[k] = v that stores nothing
MapSet_DropsEntry(m, k, v) == m
MapSet(m, k, v) == [x \in (DOMAIN m) \cup {k} |-> IF x = k THEN v ELSE m[x]]
\* delete(m, k) that leaves the key in the map
MapDelete_KeepsKey(m, k) == m
MapDelete(m, k) == [x \in (DOMAIN m) \ {k} |-> m[x]]

\* ------------------------------------------------------------ arena LRU
\* New panicked: no LRU is returned
NoCache == [pc |-> "panic", size |-> 0, maxSize |-> FromInt(0), buf |-> MakeBuf(0), elements |-> EmptyMap]

New_AcceptsZero(n) ==
    IF BigGT(n, maxLRUSize) \/ BigLT(n, FromInt(0))
    THEN NoCache
    ELSE [pc |-> "ready", size |-> 0, maxSize |-> n,
          buf |-> MakeBuf(IF BigGT(BigAdd(n, 1), FromInt(initialBufLimit))
                          THEN initialBufMax
                          ELSE ToInt(BigAdd(n, 1))),
          elements |-> EmptyMap]

\* func New(size int) *LRU
New(n) ==
    IF BigGT(n, maxLRUSize) \/ BigLE(n, FromInt(0))
    THEN NoCache
    ELSE [pc |-> "ready", size |-> 0, maxSize |-> n,
          buf |-> MakeBuf(IF BigGT(BigAdd(n, 1), FromInt(initialBufLimit))
                          THEN initialBufMax
                          ELSE ToInt(BigAdd(n, 1))),
          elements |-> EmptyMap]

\* func (lru *LRU) Len() int
LRULen(c) == c.size

Unlink(b, elem) ==
    IF b[elem].prev # 0
    THEN LET b1 == [b EXCEPT ![b[elem].prev].next = b[elem].next]
         IN  [b1 EXCEPT ![b1[elem].next].prev = b1[elem].prev]
    ELSE b

moveToFront_NoUnlink(b, elem) ==
    IF b[0].next = elem
    THEN b
    ELSE LET next == b[0].next
             b3 == [b EXCEPT ![elem].prev = 0]
             b4 == [b3 EXCEPT ![elem].next = next]
             b5 == [b4 EXCEPT ![0].next = elem]
         IN  [b5 EXCEPT ![next].prev = elem]

\* moveToFront without the last store, lru.buf[next].prev = elem
moveToFront_NoBackLink(b, elem) ==
    IF b[0].next = elem
    THEN b
    ELSE LET b2 == Unlink(b, elem)
             next == b2[0].next
             b3 == [b2 EXCEPT ![elem].prev = 0]
             b4 == [b3 EXCEPT ![elem].next = next]
         IN  [b4 EXCEPT ![0].next = elem]

\* moveToFront without the store entry.prev = 0
moveToFront_KeepsPrev(b, elem) ==
    IF b[0].next = elem
    THEN b
    ELSE LET b2 == Unlink(b, elem)
             next == b2[0].next
             b4 == [b2 EXCEPT ![elem].next = next]
             b5 == [b4 EXCEPT ![0].next = elem]
         IN  [b5 EXCEPT ![next].prev = elem]

\* func (lru *LRU) moveToFront(elem uint32, entry *cacheEntry); entry is &buf[elem]
moveToFront(b, elem) ==
    IF b[0].next = elem
    THEN b
    ELSE LET b2 == Unlink(b, elem)
             next == b2[0].next
             b3 == [b2 EXCEPT ![elem].prev = 0]
             b4 == [b3 EXCEPT ![elem].next = next]
             b5 == [b4 EXCEPT ![0].next = elem]
         IN  [b5 EXCEPT ![next].prev = elem]

\* realloc that doubles without the cap at maxSize
realloc_Uncapped(c) ==
    LET nextSize == (BufLen(c.buf) - 1) * 2
        newBuf == [i \in 0..nextSize |->
                     IF i \in DOMAIN c.buf THEN c.buf[i] ELSE cacheEntry]
    IN  [c EXCEPT !.buf = newBuf]

\* realloc whose copy stops one slot short of the old arena's end
realloc_LosesLastSlot(c) ==
    LET doubled == (BufLen(c.buf) - 1) * 2
        nextSize == IF BigGT(FromInt(doubled), c.maxSize) THEN ToInt(c.maxSize) ELSE doubled
        newBuf == [i \in 0..nextSize |->
                     IF i \in DOMAIN c.buf /\ i + 1 \in DOMAIN c.buf THEN c.buf[i] ELSE cacheEntry]
    IN  [c EXCEPT !.buf = newBuf]

\* func (lru *LRU) realloc()
realloc(c) ==
    LET doubled == (BufLen(c.buf) - 1) * 2
        nextSize == IF BigGT(FromInt(doubled), c.maxSize) THEN ToInt(c.maxSize) ELSE doubled
        newBuf == [i \in 0..nextSize |->
                     IF i \in DOMAIN c.buf THEN c.buf[i] ELSE cacheEntry]
        \* at maxSize the map is copied into one made for nextSize entries
        copied == [k \in DOMAIN c.elements |-> c.elements[k]]
    IN  [c EXCEPT !.buf = newBuf,
                  !.elements = IF FromInt(nextSize) = c.maxSize THEN copied ELSE c.elements]

AddExisting_KeepsValue(c, elem, value) ==
    [c EXCEPT !.buf = moveToFront(c.buf, elem)]

\* Add of an existing key that updates the value and leaves the slot where it is
AddExisting_NoMove(c, elem, value) ==
    [c EXCEPT !.buf = [c.buf EXCEPT ![elem].value = value]]

\* LRU.Add, the key exists: move its slot to the front and update the value
AddExisting(c, elem, value) ==
    LET b == moveToFront(c.buf, elem)
    IN  [c EXCEPT !.buf = [b EXCEPT ![elem].value = value]]

AddSelectSlot_NoSizeIncrement(c) ==
    IF BigLT(FromInt(c.size), c.maxSize)
    THEN LET elem == uint32(c.size)
         IN  [c |-> IF c.size >= BufLen(c.buf) THEN realloc(c) ELSE c,
              elem |-> elem, evicted |-> NilKey]
    ELSE LET elem == c.buf[0].prev
         IN  [c |-> [c EXCEPT !.elements = MapDelete(c.elements, c.buf[elem].key)],
              elem |-> elem, evicted |-> c.buf[elem].key]

AddSelectSlot_EvictsFront(c) ==
    IF BigLT(FromInt(c.size), c.maxSize)
    THEN LET c1 == [c EXCEPT !.size = c.size + 1]
             elem == uint32(c1.size)
         IN  [c |-> IF c1.size >= BufLen(c1.buf) THEN realloc(c1) ELSE c1,
              elem |-> elem, evicted |-> NilKey]
    ELSE LET elem == c.buf[0].next
         IN  [c |-> [c EXCEPT !.elements = MapDelete(c.elements, c.buf[elem].key)],
              elem |-> elem, evicted |-> c.buf[elem].key]

\* the least recently used slot is reused and its key stays in the lookup table
AddSelectSlot_KeepsEvictedKey(c) ==
    IF BigLT(FromInt(c.size), c.maxSize)
    THEN LET c1 == [c EXCEPT !.size = c.size + 1]
             elem == uint32(c1.size)
         IN  [c |-> IF c1.size >= BufLen(c1.buf) THEN realloc(c1) ELSE c1,
              elem |-> elem, evicted |-> NilKey]
    ELSE LET elem == c.buf[0].prev
         IN  [c |-> c, elem |-> elem, evicted |-> c.buf[elem].key]

\* LRU.Add, the key is absent: the next free slot (growing the arena) or the
\* least recently used one, whose key leaves the lookup table
AddSelectSlot(c) ==
    IF BigLT(FromInt(c.size), c.maxSize)
    THEN LET c1 == [c EXCEPT !.size = c.size + 1]
             elem == uint32(c1.size)
         IN  [c |-> IF c1.size >= BufLen(c1.buf) THEN realloc(c1) ELSE c1,
              elem |-> elem, evicted |-> NilKey]
    ELSE LET elem == c.buf[0].prev
         IN  [c |-> [c EXCEPT !.elements = MapDelete(c.elements, c.buf[elem].key)],
              elem |-> elem, evicted |-> c.buf[elem].key]

AddStore_NoIndex(c, elem, key, value) ==
    IF elem >= uint32(BufLen(c.buf))
    THEN [c EXCEPT !.pc = "panic"]
    ELSE LET b1 == [c.buf EXCEPT ![elem].key = key]
             b2 == [b1 EXCEPT ![elem].value = value]
         IN  [c EXCEPT !.buf = moveToFront(b2, elem)]

\* the new entry is stored and indexed but its slot is not moved to the front
AddStore_NoMove(c, elem, key, value) ==
    IF elem >= uint32(BufLen(c.buf))
    THEN [c EXCEPT !.pc = "panic"]
    ELSE LET b1 == [c.buf EXCEPT ![elem].key = key]
             b2 == [b1 EXCEPT ![elem].value = value]
         IN  [c EXCEPT !.buf = b2,
                       !.elements = MapSet(c.elements, key, elem)]

\* LRU.Add, the key is absent: range check, store key and value, index, move to front
AddStore(c, elem, key, value) ==
    IF elem >= uint32(BufLen(c.buf))
    THEN [c EXCEPT !.pc = "panic"]
    ELSE LET b1 == [c.buf EXCEPT ![elem].key = key]
             b2 == [b1 EXCEPT ![elem].value = value]
         IN  [c EXCEPT !.buf = moveToFront(b2, elem),
                       !.elements = MapSet(c.elements, key, elem)]

\* func (lru *LRU) Add(key, value interface{}): the cache afterwards and the evicted key
LRUAdd(c, key, value) ==
    IF key \in DOMAIN c.elements
    THEN [c |-> AddExisting(c, c.elements[key], value), evicted |-> NilKey]
    ELSE LET s == AddSelectSlot(c)
         IN  [c |-> AddStore(s.c, s.elem, key, value), evicted |-> s.evicted]

\* (interface{}, bool) results; len carries the result of Len
Found(v) == [value |-> v, found |-> TRUE, len |-> 0]
NotFound == [value |-> NilValue, found |-> FALSE, len |-> 0]
NoRet == [value |-> NilValue, found |-> FALSE, len |-> 0]
LenRet(n) == [value |-> NilValue, found |-> FALSE, len |-> n]

LRUGet_NoMove(c, key) ==
    IF key \in DOMAIN c.elements
    THEN [c |-> c, ret |-> Found(c.buf[c.elements[key]].value)]
    ELSE [c |-> c, ret |-> NotFound]

LRUGet_MoveBeforeCheck(c, key) ==
    LET elem == IF key \in DOMAIN c.elements THEN c.elements[key] ELSE 0
        c1 == [c EXCEPT !.buf = moveToFront(c.buf, elem)]
    IN  IF key \in DOMAIN c.elements
        THEN [c |-> c1, ret |-> Found(c1.buf[elem].value)]
        ELSE [c |-> c1, ret |-> NotFound]

\* func (lru *LRU) Get(key interface{}) (interface{}, bool): the cache afterwards and the result
LRUGet(c, key) ==
    IF key \in DOMAIN c.elements
    THEN LET elem == c.elements[key]
             c1 == [c EXCEPT !.buf = moveToFront(c.buf, elem)]
         IN  [c |-> c1, ret |-> Found(c1.buf[elem].value)]
    ELSE [c |-> c, ret |-> NotFound]

LRUPeek_Moves(c, key) == LRUGet(c, key)

\* func (lru *LRU) Peek(key interface{}) (interface{}, bool): the cache afterwards and the result
LRUPeek(c, key) ==
    IF key \in DOMAIN c.elements
    THEN [c |-> c, ret |-> Found(c.buf[c.elements[key]].value)]
    ELSE [c |-> c, ret |-> NotFound]

\* ------------------------------------------------- container/list LRU
\* The container/list LRU as one record.
ListCache == [pc |-> pc, maxSize |-> lstMaxSize, keys |-> lstKeys, values |-> lstValues]

\* func New(size int) *LRU (container/list): no check of size
ListNew(n) == [pc |-> "ready", maxSize |-> n, keys |-> <<>>, values |-> EmptyMap]

\* func (lru *LRU) Len() int (container/list)
ListLen(l) == Cardinality(DOMAIN l.values)

\* list.MoveToFront / list.PushFront on a list of distinct keys
ListToFront(keys, key) == <<key>> \o SelectSeq(keys, LAMBDA x : x # key)

\* func (lru *LRU) removeLast() (container/list): last.Value of a nil last panics
removeLast(l) ==
    IF Len(l.keys) = 0
    THEN [l EXCEPT !.pc = "panic"]
    ELSE LET last == l.keys[Len(l.keys)]
         IN  [l EXCEPT !.keys = SubSeq(l.keys, 1, Len(l.keys) - 1),
                       !.values = MapDelete(l.values, last)]

\* func (lru *LRU) Add(key, value interface{}) (container/list)
ListAdd(l, key, value) ==
    IF key \in DOMAIN l.values
    THEN [l EXCEPT !.keys = ListToFront(l.keys, key),
                   !.values = MapSet(l.values, key, value)]
    ELSE LET l1 == IF BigLE(l.maxSize, FromInt(Len(l.keys))) THEN removeLast(l) ELSE l
         IN  IF l1.pc = "panic"
             THEN l1
             ELSE [l1 EXCEPT !.keys = ListToFront(l1.keys, key),
                             !.values = MapSet(l1.values, key, value)]

\* func (lru *LRU) Get(key interface{}) (interface{}, bool) (container/list)
ListGet(l, key) ==
    IF key \in DOMAIN l.values
    THEN [l |-> [l EXCEPT !.keys = ListToFront(l.keys, key)], ret |-> Found(l.values[key])]
    ELSE [l |-> l, ret |-> NotFound]

\* func (lru *LRU) Peek(key interface{}) (interface{}, bool) (container/list)
ListPeek(l, key) ==
    IF key \in DOMAIN l.values
    THEN [l |-> l, ret |-> Found(l.values[key])]
    ELSE [l |-> l, ret |-> NotFound]

\* ---------------------------------------------------------- StringCache
\* A Go string: its content and the instance (backing storage) holding it.
\* The map and == compare contents only.
String(content, inst) == [content |-> content, inst |-> inst]
\* the zero string ""
EmptyString == String(0, 0)
Instances == {1, 2}
Contents == 1..MaxContent
Strings == {String(c, i) : c \in Contents, i \in Instances}
\* Capacities NewStringCache is called with in SpecSC.
CapacitiesSC == {FromInt(n) : n \in (-2)..MaxCapSC}

\* type stringElem struct { value string; prev, next uint32 }
stringElem == [value |-> EmptyString, prev |-> 0, next |-> 0]

\* make([]stringElem, n)
MakeStringBuf(n) == [i \in 0..(n - 1) |-> stringElem]

\* The StringCache object as one record.
StringCache == [pc |-> scPc, maxSize |-> scMaxSize, size |-> scSize, hitCount |-> hitCount,
                missCount |-> missCount, buf |-> scBuf, values |-> scValues]

\* NewStringCache panicked: no StringCache is returned
NoStringCache == [pc |-> "panic", maxSize |-> FromInt(0), size |-> 0, hitCount |-> 0,
                  missCount |-> 0, buf |-> MakeStringBuf(0), values |-> EmptyMap]

\* func (sc *StringCache) init(): make([]stringElem, initialSize) panics for a
\* negative initialSize, &sc.buf[0] panics for an empty buf
StringCacheInit(n) ==
    LET plusOne == BigAdd(n, 1)
        initialSize == IF BigGT(plusOne, FromInt(initialBufLimit))
                       THEN initialBufMax
                       ELSE ToInt(plusOne)
    IN  IF initialSize < 0 \/ initialSize = 0
        THEN NoStringCache
        ELSE [pc |-> "ready", maxSize |-> n, size |-> 0, hitCount |-> 0, missCount |-> 0,
              buf |-> MakeStringBuf(initialSize), values |-> EmptyMap]

\* func NewStringCache(size int) *StringCache
NewStringCache(n) ==
    IF BigGT(n, TwoTo32)
    THEN NoStringCache
    ELSE StringCacheInit(n)

\* func (sc *StringCache) Len() int
StringCacheLen(sc) == sc.size

\* func (sc *StringCache) HitCounts() HitCounts
HitCounts(sc) == [Hit |-> sc.hitCount, Miss |-> sc.missCount]

\* realloc(0) without nextSize++, the slot reserved for the root
StringCacheRealloc_NoRootSlot(sc, nextSizeArg) ==
    LET tripled == (BufLen(sc.buf) - 1) * 3
        grown == IF BigGT(FromInt(tripled), sc.maxSize) THEN ToInt(sc.maxSize) ELSE tripled
        nextSize == IF nextSizeArg = 0 THEN grown ELSE nextSizeArg
        newBuf == [i \in 0..(nextSize - 1) |->
                     IF i \in DOMAIN sc.buf THEN sc.buf[i] ELSE stringElem]
    IN  [sc EXCEPT !.buf = newBuf]

\* func (sc *StringCache) realloc(nextSize int)
StringCacheRealloc(sc, nextSizeArg) ==
    LET tripled == (BufLen(sc.buf) - 1) * 3
        grown == (IF BigGT(FromInt(tripled), sc.maxSize) THEN ToInt(sc.maxSize) ELSE tripled) + 1
        nextSize == IF nextSizeArg = 0 THEN grown ELSE nextSizeArg
        newBuf == [i \in 0..(nextSize - 1) |->
                     IF i \in DOMAIN sc.buf THEN sc.buf[i] ELSE stringElem]
    IN  [sc EXCEPT !.buf = newBuf]

\* moveToFront without the last store, sc.buf[next].prev = elem
StringCacheMoveToFront_NoBackLink(b, elem) ==
    IF b[0].next = elem
    THEN b
    ELSE LET b1 == IF b[elem].prev # 0
                   THEN [b EXCEPT ![b[elem].prev].next = b[elem].next]
                   ELSE b
             b2 == IF b[elem].prev # 0
                   THEN [b1 EXCEPT ![b1[elem].next].prev = b1[elem].prev]
                   ELSE b1
             next == b2[0].next
             b3 == [b2 EXCEPT ![elem].prev = 0]
             b4 == [b3 EXCEPT ![elem].next = next]
         IN  [b4 EXCEPT ![0].next = elem]

\* func (sc *StringCache) moveToFront(elem uint32)
StringCacheMoveToFront(b, elem) ==
    IF b[0].next = elem
    THEN b
    ELSE LET b1 == IF b[elem].prev # 0
                   THEN [b EXCEPT ![b[elem].prev].next = b[elem].next]
                   ELSE b
             b2 == IF b[elem].prev # 0
                   THEN [b1 EXCEPT ![b1[elem].next].prev = b1[elem].prev]
                   ELSE b1
             next == b2[0].next
             b3 == [b2 EXCEPT ![elem].prev = 0]
             b4 == [b3 EXCEPT ![elem].next = next]
             b5 == [b4 EXCEPT ![0].next = elem]
         IN  [b5 EXCEPT ![next].prev = elem]

\* Intern's miss path counting a hit instead of a miss
InternMiss_CountsHit(sc, v) ==
    LET sc0 == [sc EXCEPT !.hitCount = sc.hitCount + 1]
    IN  IF BigLT(FromInt(sc0.size), sc0.maxSize)
        THEN LET sc1 == [sc0 EXCEPT !.size = sc0.size + 1]
                 elem == uint32(sc1.size)
                 sc2 == IF sc1.size >= BufLen(sc1.buf) THEN StringCacheRealloc(sc1, 0) ELSE sc1
             IN  IF elem \notin DOMAIN sc2.buf
                 THEN [sc2 EXCEPT !.pc = "panic"]
                 ELSE LET b == [sc2.buf EXCEPT ![elem].value = v]
                      IN  [sc2 EXCEPT !.buf = StringCacheMoveToFront(b, elem),
                                      !.values = MapSet(sc2.values, v.content, elem)]
        ELSE LET elem == sc0.buf[0].prev
                 deleted == MapDelete(sc0.values, sc0.buf[elem].value.content)
                 b == [sc0.buf EXCEPT ![elem].value = v]
             IN  [sc0 EXCEPT !.buf = StringCacheMoveToFront(b, elem),
                             !.values = MapSet(deleted, v.content, elem)]

\* StringCache.Intern, the string is not cached: count the miss, take the next
\* free slot (growing the arena) or the least recently used one, store, move
\* to the front, index. sc.buf[elem] panics when elem is outside buf.
InternMiss(sc, v) ==
    LET sc0 == [sc EXCEPT !.missCount = sc.missCount + 1]
    IN  IF BigLT(FromInt(sc0.size), sc0.maxSize)
        THEN LET sc1 == [sc0 EXCEPT !.size = sc0.size + 1]
                 elem == uint32(sc1.size)
                 sc2 == IF sc1.size >= BufLen(sc1.buf) THEN StringCacheRealloc(sc1, 0) ELSE sc1
             IN  IF elem \notin DOMAIN sc2.buf
                 THEN [sc2 EXCEPT !.pc = "panic"]
                 ELSE LET b == [sc2.buf EXCEPT ![elem].value = v]
                      IN  [sc2 EXCEPT !.buf = StringCacheMoveToFront(b, elem),
                                      !.values = MapSet(sc2.values, v.content, elem)]
        ELSE LET elem == sc0.buf[0].prev
                 deleted == MapDelete(sc0.values, sc0.buf[elem].value.content)
                 b == [sc0.buf EXCEPT ![elem].value = v]
             IN  [sc0 EXCEPT !.buf = StringCacheMoveToFront(b, elem),
                             !.values = MapSet(deleted, v.content, elem)]

\* Intern returning, on a miss, the string found in the least recently used slot
Intern_MissReturnsOldSlot(sc, v) ==
    IF v.content \in DOMAIN sc.values
    THEN LET elem == sc.values[v.content]
             b == StringCacheMoveToFront(sc.buf, elem)
         IN  [sc |-> [sc EXCEPT !.buf = b, !.hitCount = sc.hitCount + 1], ret |-> b[elem].value]
    ELSE [sc |-> InternMiss(sc, v), ret |-> sc.buf[sc.buf[0].prev].value]

\* Intern returning its argument on a hit instead of the cached string
Intern_ReturnsArgument(sc, v) ==
    IF v.content \in DOMAIN sc.values
    THEN LET elem == sc.values[v.content]
             b == StringCacheMoveToFront(sc.buf, elem)
         IN  [sc |-> [sc EXCEPT !.buf = b, !.hitCount = sc.hitCount + 1], ret |-> v]
    ELSE [sc |-> InternMiss(sc, v), ret |-> v]

\* Intern leaving a string it finds cached where it is in the list
Intern_HitDoesNotMove(sc, v) ==
    IF v.content \in DOMAIN sc.values
    THEN [sc |-> [sc EXCEPT !.hitCount = sc.hitCount + 1],
          ret |-> sc.buf[sc.values[v.content]].value]
    ELSE [sc |-> InternMiss(sc, v), ret |-> v]

\* func (sc *StringCache) Intern(v string) string: the cache afterwards and the result
Intern(sc, v) ==
    IF v.content \in DOMAIN sc.values
    THEN LET elem == sc.values[v.content]
             b == StringCacheMoveToFront(sc.buf, elem)
         IN  [sc |-> [sc EXCEPT !.buf = b, !.hitCount = sc.hitCount + 1],
              ret |-> b[elem].value]
    ELSE [sc |-> InternMiss(sc, v), ret |-> v]

\* func (sc *StringCache) Contains(v string) bool
Contains(sc, v) == v.content \in DOMAIN sc.values

\* a Contains that also moves the string it finds to the front, as Intern does
ContainsCall_Touches(sc, v) ==
    IF v.content \in DOMAIN sc.values
    THEN [sc |-> [sc EXCEPT !.buf = StringCacheMoveToFront(sc.buf, sc.values[v.content])],
          ret |-> TRUE]
    ELSE [sc |-> sc, ret |-> FALSE]

\* A call of Contains: the cache afterwards and the result. The body only reads
\* the map; nothing of sc is written.
ContainsCall(sc, v) == [sc |-> sc, ret |-> Contains(sc, v)]

\* Prealloc whose new map is left empty: the loop copying the entries is missing
Prealloc_EmptyMap(sc) ==
    StringCacheRealloc([sc EXCEPT !.values = EmptyMap], ToInt(sc.maxSize) + 1)

\* func (sc *StringCache) Prealloc()
Prealloc(sc) ==
    LET values == [k \in DOMAIN sc.values |-> sc.values[k]]
    IN  StringCacheRealloc([sc EXCEPT !.values = values], ToInt(sc.maxSize) + 1)

\* Validate's results: nil, one tag per fmt.Errorf, "panic" for an index out
\* of range and "hang" for a walk that never comes back to the root.
ValidateOk == "nil"
ValidateAborts == {"panic", "hang"}

\* The tail of Validate, after the loop: the two count checks.
ValidateCounts(sc, count) ==
    IF count # sc.size
    THEN "incorrect count"
    ELSE IF Cardinality(DOMAIN sc.values) # sc.size
         THEN "value map has wrong count"
         ELSE ValidateOk

\* sc.values[v]: the zero value 0 for a string that is not in the map
ValuesAt(sc, v) == IF v.content \in DOMAIN sc.values THEN sc.values[v.content] ELSE 0

\* One iteration of Validate's loop for the element at cur: the error it
\* returns, or "nil" to go on. An index equal to len(buf) passes the > test and
\* then panics.
ValidateElem(sc, cur) ==
    LET n == BufLen(sc.buf)
        curS == sc.buf[cur]
    IN  IF curS.prev > n THEN "prev > len(buf)"
        ELSE IF curS.prev = n THEN "panic"
        ELSE IF sc.buf[curS.prev].next # cur THEN "prev.next is not this"
        ELSE IF curS.next > n THEN "next > len(buf)"
        ELSE IF curS.next = n THEN "panic"
        ELSE IF sc.buf[curS.next].prev # cur THEN "next.prev is not this"
        ELSE IF ValuesAt(sc, curS.value) # cur THEN "map doesn't point to cur"
        ELSE ValidateOk

\* Validate's loop between two iterations: the element to visit next, the
\* elements counted so far and, once the loop has ended, the result.
ValidateGo == "go"
ValidateAt(cur, count) == [cur |-> cur, count |-> count, res |-> ValidateGo]

\* for cur := sc.root.next; cur != 0; cur = sc.buf[cur].next { count++; ... }
\* one iteration, or the tail of Validate when cur is 0
ValidateStep(sc, st) ==
    IF st.res # ValidateGo THEN st
    ELSE IF st.cur = 0 THEN [st EXCEPT !.res = ValidateCounts(sc, st.count)]
    ELSE IF st.cur \notin DOMAIN sc.buf THEN [st EXCEPT !.res = "panic"]
    ELSE LET err == ValidateElem(sc, st.cur)
         IN  IF err # ValidateOk
             THEN [st EXCEPT !.res = err]
             ELSE ValidateAt(sc.buf[st.cur].next, st.count + 1)

\* steps iterations of the loop from st, run as two halves to keep the
\* evaluation shallow on a long list
RECURSIVE ValidateLoop(_, _, _)
ValidateLoop(sc, st, steps) ==
    IF steps = 1
    THEN ValidateStep(sc, st)
    ELSE LET half == steps \div 2
             mid == ValidateLoop(sc, st, half)
         IN  IF mid.res # ValidateGo THEN mid ELSE ValidateLoop(sc, mid, steps - half)

\* func (sc *StringCache) Validate() error. sc.root is &sc.buf[0] after init
\* and after every realloc, the only two places that assign buf, so the root
\* test never fails and root is read as buf[0] throughout. A walk still going
\* after len(buf) + 1 iterations has entered a cycle and never ends.
Validate(sc) ==
    LET end == ValidateLoop(sc, ValidateAt(sc.buf[0].next, 0), BufLen(sc.buf) + 1)
    IN  IF end.res = ValidateGo THEN "hang" ELSE end.res

\* a Validate that also trims the arena to the slots in use
ValidateCall_Trims(sc) ==
    [sc |-> StringCacheRealloc(sc, sc.size + 1), err |-> Validate(sc)]

\* A call of Validate: the cache afterwards and the result. The body only reads
\* sc; sc.values[v] of a string that is not in the map yields 0 and adds no entry.
ValidateCall(sc) == [sc |-> sc, err |-> Validate(sc)]

\* ----------------------------------------------------------- goroutines
\* Intern as the steps a goroutine takes: each step is one read or write of
\* size, of a counter, of the lookup table or of the arena (moveToFront and
\* realloc are taken as one step each). A goroutine keeps the argument v, the
\* local elem and the result between steps.
Threads == 1..MaxThreads
Goroutine == [pc |-> "idle", v |-> EmptyString, elem |-> 0, calls |-> 0, ret |-> EmptyString]
InternPcs == {"lookup", "hitMove", "hitRead", "hitCount", "missCount", "sizeTest",
              "sizeInc", "elemSet", "grow", "store", "evictRead", "evictDelete",
              "evictStore", "missMove", "index"}

\* an index out of range: the runtime panic ends the program
Crash(sc, th) == [sc |-> [sc EXCEPT !.pc = "panic"], th |-> [th EXCEPT !.pc = "panicked"]]

\* The step of Intern at th.pc: the cache and the goroutine's locals afterwards.
InternStep(sc, th) ==
    CASE th.pc = "lookup" ->       \* elem, ok := sc.values[v]
           IF th.v.content \in DOMAIN sc.values
           THEN [sc |-> sc,
                 th |-> [th EXCEPT !.elem = sc.values[th.v.content], !.pc = "hitMove"]]
           ELSE [sc |-> sc, th |-> [th EXCEPT !.pc = "missCount"]]
      [] th.pc = "hitMove" ->      \* sc.moveToFront(elem)
           IF th.elem \notin DOMAIN sc.buf
           THEN Crash(sc, th)
           ELSE [sc |-> [sc EXCEPT !.buf = StringCacheMoveToFront(sc.buf, th.elem)],
                 th |-> [th EXCEPT !.pc = "hitRead"]]
      [] th.pc = "hitRead" ->      \* value := sc.buf[elem].value
           [sc |-> sc, th |-> [th EXCEPT !.ret = sc.buf[th.elem].value, !.pc = "hitCount"]]
      [] th.pc = "hitCount" ->     \* sc.hitCount++; return value
           [sc |-> [sc EXCEPT !.hitCount = sc.hitCount + 1],
            th |-> [th EXCEPT !.pc = "return"]]
      [] th.pc = "missCount" ->    \* sc.missCount++
           [sc |-> [sc EXCEPT !.missCount = sc.missCount + 1],
            th |-> [th EXCEPT !.pc = "sizeTest"]]
      [] th.pc = "sizeTest" ->     \* if sc.size < sc.maxSize
           [sc |-> sc,
            th |-> [th EXCEPT !.pc = IF BigLT(FromInt(sc.size), sc.maxSize)
                                     THEN "sizeInc"
                                     ELSE "evictRead"]]
      [] th.pc = "sizeInc" ->      \* sc.size++
           [sc |-> [sc EXCEPT !.size = sc.size + 1], th |-> [th EXCEPT !.pc = "elemSet"]]
      [] th.pc = "elemSet" ->      \* elem = uint32(sc.size)
           [sc |-> sc, th |-> [th EXCEPT !.elem = uint32(sc.size), !.pc = "grow"]]
      [] th.pc = "grow" ->         \* if sc.size >= len(sc.buf) { sc.realloc(0) }
           [sc |-> IF sc.size >= BufLen(sc.buf) THEN StringCacheRealloc(sc, 0) ELSE sc,
            th |-> [th EXCEPT !.pc = "store"]]
      [] th.pc = "store" ->        \* sc.buf[elem].value = v
           IF th.elem \notin DOMAIN sc.buf
           THEN Crash(sc, th)
           ELSE [sc |-> [sc EXCEPT !.buf[th.elem].value = th.v],
                 th |-> [th EXCEPT !.pc = "missMove"]]
      [] th.pc = "evictRead" ->    \* elem = sc.root.prev
           [sc |-> sc, th |-> [th EXCEPT !.elem = sc.buf[0].prev, !.pc = "evictDelete"]]
      [] th.pc = "evictDelete" ->  \* e := &sc.buf[elem]; delete(sc.values, e.value)
           [sc |-> [sc EXCEPT !.values = MapDelete(sc.values, sc.buf[th.elem].value.content)],
            th |-> [th EXCEPT !.pc = "evictStore"]]
      [] th.pc = "evictStore" ->   \* e.value = v
           [sc |-> [sc EXCEPT !.buf[th.elem].value = th.v],
            th |-> [th EXCEPT !.pc = "missMove"]]
      [] th.pc = "missMove" ->     \* sc.moveToFront(elem)
           [sc |-> [sc EXCEPT !.buf = StringCacheMoveToFront(sc.buf, th.elem)],
            th |-> [th EXCEPT !.pc = "index"]]
      [] th.pc = "index" ->        \* sc.values[v] = elem; return v
           [sc |-> [sc EXCEPT !.values = MapSet(sc.values, th.v.content, th.elem)],
            th |-> [th EXCEPT !.ret = th.v, !.pc = "return"]]

\* a Lock that never waits
CanLock_Always(m) == TRUE

\* mu.Lock() returns only while no goroutine holds the mutex
CanLock(m) == m = 0

\* keys[i] = fmt.Sprint((i % totalUniqueKeys) + 1000000): the string a goroutine
\* of the test interns in its call number i + 1
TestKey(i) == String((i % MaxContent) + 1, 1)

\* wg.Wait() has returned: every goroutine has made its calls or has given up
AllDone == \A t \in Threads :
               \/ thr[t].pc = "failed"
               \/ thr[t].pc = "idle" /\ thr[t].calls = MaxThreadCalls

\* ------------------------------------------------------------- history
Range(s) == {s[i] : i \in 1..Len(s)}

\* A touch of key: it becomes the most recently touched key.
Touch(order, key) == <<key>> \o SelectSeq(order, LAMBDA x : x # key)

\* The keys an LRU of capacity n holds after the touches recorded in order.
Retained(order, n) == SubSeq(order, 1, MinIntBig(Len(order), n))

\* The test scenario (simpleFullCache, then TestLRUAddEvicts or
\* TestLRUGetUpdatesEvict): Add of pairwise distinct keys k1..kN, then either one
\* more Add of a new key, or Get(k1), Get(k2) and one more Add of a new key.
\* adds: the <<key, value>> pairs added so far; gets: the Gets made so far;
\* live: FALSE once any call has left the scenario.
ScenStart == [live |-> TRUE, adds |-> <<>>, gets |-> 0]
ScenOff == [live |-> FALSE, adds |-> <<>>, gets |-> 0]

ScenAdd(s, n, key, value) ==
    IF /\ s.live
       /\ \A i \in 1..Len(s.adds) : s.adds[i][1] # key
       /\ \/ s.gets = 0 /\ BigLE(FromInt(Len(s.adds)), n)
          \/ s.gets = 2 /\ FromInt(Len(s.adds)) = n
    THEN [s EXCEPT !.adds = Append(s.adds, <<key, value>>)]
    ELSE ScenOff

ScenGet(s, n, key) ==
    IF /\ s.live
       /\ FromInt(Len(s.adds)) = n
       /\ s.gets < 2
       /\ s.gets + 1 <= Len(s.adds)
       /\ s.adds[s.gets + 1][1] = key
    THEN [s EXCEPT !.gets = s.gets + 1]
    ELSE ScenOff

\* History of the Intern calls on the StringCache, kept apart from its fields:
\*   interns    the number of Intern calls
\*   burst      how many of them the sequential driver made
\*   order      every content ever interned, most recently interned first
\*   canon      content -> the string passed to the Intern call that inserted it
\*   wasCached  whether the last Intern call's content was cached when it was made
HistStart == [interns |-> 0, burst |-> 0, order |-> <<>>, canon |-> EmptyMap,
              wasCached |-> FALSE]

\* The contents a StringCache of capacity n holds after the Intern calls of h.
HistCached(h, n) == Range(Retained(h.order, n))

\* The history after one more Intern(v) on a StringCache of capacity n.
HistIntern(h, n, v, driver) ==
    LET cached == v.content \in HistCached(h, n)
    IN  [interns |-> h.interns + 1,
         burst |-> IF driver THEN h.burst + 1 ELSE h.burst,
         order |-> Touch(h.order, v.content),
         canon |-> IF cached THEN h.canon ELSE MapSet(h.canon, v.content, v),
         wasCached |-> cached]

\* ------------------------------------------------------------- actions
\* cached: whether the history says the key was in the cache when the call was made
Op(op, key, value, cached) == [op |-> op, key |-> key, value |-> value, cached |-> cached]
WasCached(key) == key \in Range(Retained(touchOrder, maxSize))

ScOp(op, str) == [op |-> op, str |-> str]
\* results of the StringCache calls: Intern's string, Contains' bool, Len's int,
\* HitCounts' struct, Validate's error
ScNoRet == [str |-> EmptyString, ok |-> FALSE, len |-> 0, counts |-> [Hit |-> 0, Miss |-> 0],
            err |-> ValidateOk]

Init ==
    /\ pc = "start"
    /\ newArg = FromInt(0)
    /\ size = 0
    /\ maxSize = FromInt(0)
    /\ buf = MakeBuf(0)
    /\ elements = EmptyMap
    /\ lastOp = Op("none", NilKey, NilValue, FALSE)
    /\ ret = NoRet
    /\ evicted = NilKey
    /\ lstMaxSize = FromInt(0)
    /\ lstKeys = <<>>
    /\ lstValues = EmptyMap
    /\ lstRet = NoRet
    /\ touchOrder = <<>>
    /\ touched = <<>>
    /\ lastAdded = EmptyMap
    /\ scen = ScenOff
    /\ scPc = "start"
    /\ scNewArg = FromInt(0)
    /\ scMaxSize = FromInt(0)
    /\ scSize = 0
    /\ hitCount = 0
    /\ missCount = 0
    /\ scBuf = MakeStringBuf(0)
    /\ scValues = EmptyMap
    /\ scLastOp = ScOp("none", EmptyString)
    /\ scHist = HistStart
    /\ mu = 0
    /\ thr = [t \in Threads |-> Goroutine]
    /\ raced = FALSE
    /\ scRet = ScNoRet

SetCache(c) ==
    /\ pc' = c.pc
    /\ size' = c.size
    /\ maxSize' = c.maxSize
    /\ buf' = c.buf
    /\ elements' = c.elements

SetList(l) ==
    /\ lstMaxSize' = l.maxSize
    /\ lstKeys' = l.keys
    /\ lstValues' = l.values

\* lru.New(n), and the container/list LRU of the same size when New returns
NewAct(n) ==
    /\ pc = "start"
    /\ newArg' = n
    /\ SetCache(New(n))
    /\ IF New(n).pc = "ready" THEN SetList(ListNew(n)) ELSE UNCHANGED <<lstMaxSize, lstKeys, lstValues>>
    /\ lastOp' = Op("New", NilKey, NilValue, FALSE)
    /\ ret' = NoRet
    /\ lstRet' = NoRet
    /\ evicted' = NilKey
    /\ scen' = ScenStart
    /\ UNCHANGED <<touchOrder, touched, lastAdded>>
    /\ UNCHANGED <<scVars, mtVars>>

\* cache.Add(key, value)
AddAct(key, value) ==
    /\ pc = "ready"
    /\ LET r == LRUAdd(Cache, key, value)
       IN  /\ SetCache(r.c)
           /\ evicted' = r.evicted
    /\ SetList(ListAdd(ListCache, key, value))
    /\ lastOp' = Op("Add", key, value, WasCached(key))
    /\ ret' = NoRet
    /\ lstRet' = NoRet
    /\ touchOrder' = Touch(touchOrder, key)
    /\ touched' = Touch(touched, key)
    /\ lastAdded' = MapSet(lastAdded, key, value)
    /\ scen' = ScenAdd(scen, maxSize, key, value)
    /\ UNCHANGED newArg
    /\ UNCHANGED <<scVars, mtVars>>

\* cache.Get(key)
GetAct(key) ==
    /\ pc = "ready"
    /\ LET r == LRUGet(Cache, key)
       IN  /\ SetCache(r.c)
           /\ ret' = r.ret
    /\ LET r == ListGet(ListCache, key)
       IN  /\ SetList(r.l)
           /\ lstRet' = r.ret
    /\ lastOp' = Op("Get", key, NilValue, WasCached(key))
    /\ evicted' = NilKey
    /\ touchOrder' = IF WasCached(key)
                     THEN Touch(touchOrder, key)
                     ELSE touchOrder
    /\ touched' = IF LRUGet(Cache, key).ret.found
                  THEN Touch(touched, key)
                  ELSE touched
    /\ scen' = ScenGet(scen, maxSize, key)
    /\ UNCHANGED <<newArg, lastAdded>>
    /\ UNCHANGED <<scVars, mtVars>>

\* cache.Peek(key)
PeekAct(key) ==
    /\ pc = "ready"
    /\ LET r == LRUPeek(Cache, key)
       IN  /\ SetCache(r.c)
           /\ ret' = r.ret
    /\ LET r == ListPeek(ListCache, key)
       IN  /\ SetList(r.l)
           /\ lstRet' = r.ret
    /\ lastOp' = Op("Peek", key, NilValue, WasCached(key))
    /\ evicted' = NilKey
    /\ scen' = ScenOff
    /\ UNCHANGED <<newArg, touchOrder, touched, lastAdded>>
    /\ UNCHANGED <<scVars, mtVars>>

\* cache.Len()
LenAct ==
    /\ pc = "ready"
    /\ ret' = LenRet(LRULen(Cache))
    /\ lstRet' = LenRet(ListLen(ListCache))
    /\ lastOp' = Op("Len", NilKey, NilValue, FALSE)
    /\ evicted' = NilKey
    /\ scen' = ScenOff
    /\ UNCHANGED <<pc, newArg, size, maxSize, buf, elements, lstMaxSize, lstKeys,
                   lstValues, touchOrder, touched, lastAdded>>
    /\ UNCHANGED <<scVars, mtVars>>

\* The keys below FirstDriverKey are the ones the calls choose freely.
FirstDriverKey == MaxKey + MaxKeyScen + MaxKeyNew + 1

\* How many keys the sequential driver has added.
DriverAdds == Cardinality({k \in DOMAIN lastAdded : k >= FirstDriverKey})

\* for i := 0; i < c.N; i++ { cache.Add(i, i) }: the driver adds a new key each
\* time; at most MaxBurst such calls
AddNextAct ==
    /\ DriverAdds < MaxBurst
    /\ AddAct(FirstDriverKey + DriverAdds, "a")

SetStringCache(sc) ==
    /\ scPc' = sc.pc
    /\ scMaxSize' = sc.maxSize
    /\ scSize' = sc.size
    /\ hitCount' = sc.hitCount
    /\ missCount' = sc.missCount
    /\ scBuf' = sc.buf
    /\ scValues' = sc.values

\* lru.NewStringCache(n)
NewStringCacheAct(n) ==
    /\ scPc = "start"
    /\ scNewArg' = n
    /\ SetStringCache(NewStringCache(n))
    /\ scLastOp' = ScOp("NewStringCache", EmptyString)
    /\ scRet' = ScNoRet
    /\ scHist' = HistStart
    /\ UNCHANGED <<lruVars, mtVars>>

\* The string the sequential driver interns next: a fresh content each time,
\* as the loops of TestInternMaxSize and TestInternAbuse do.
NextFresh == String(MaxContent + scHist.burst + 1, 1)

\* cache.Intern(v), called by the driver or with a freely chosen string
InternCall(v, driver) ==
    /\ scPc = "ready"
    /\ LET r == Intern(StringCache, v)
       IN  /\ SetStringCache(r.sc)
           /\ scRet' = [ScNoRet EXCEPT !.str = r.ret]
    /\ scLastOp' = ScOp("Intern", v)
    /\ scHist' = HistIntern(scHist, scMaxSize, v, driver)
    /\ UNCHANGED <<scNewArg, lruVars, mtVars>>

\* cache.Intern(v) with a freely chosen string; at most MaxInterns such calls
InternAct(v) ==
    /\ scHist.interns - scHist.burst < MaxInterns
    /\ InternCall(v, FALSE)

\* cache.Intern(fresh) by the sequential driver; at most MaxBurst such calls
InternNextAct ==
    /\ scHist.burst < MaxBurst
    /\ InternCall(NextFresh, TRUE)

\* cache.Contains(v)
ContainsAct(v) ==
    /\ scPc = "ready"
    /\ LET r == ContainsCall(StringCache, v)
       IN  /\ SetStringCache(r.sc)
           /\ scRet' = [ScNoRet EXCEPT !.ok = r.ret]
    /\ scLastOp' = ScOp("Contains", v)
    /\ UNCHANGED <<scNewArg, scHist, lruVars, mtVars>>

\* cache.Len()
StringCacheLenAct ==
    /\ scPc = "ready"
    /\ scRet' = [ScNoRet EXCEPT !.len = StringCacheLen(StringCache)]
    /\ scLastOp' = ScOp("Len", EmptyString)
    /\ UNCHANGED <<scPc, scNewArg, scMaxSize, scSize, hitCount, missCount, scBuf, scValues,
                   scHist, lruVars, mtVars>>

\* cache.HitCounts()
HitCountsAct ==
    /\ scPc = "ready"
    /\ scRet' = [ScNoRet EXCEPT !.counts = HitCounts(StringCache)]
    /\ scLastOp' = ScOp("HitCounts", EmptyString)
    /\ UNCHANGED <<scPc, scNewArg, scMaxSize, scSize, hitCount, missCount, scBuf, scValues,
                   scHist, lruVars, mtVars>>

\* cache.Prealloc()
PreallocAct ==
    /\ scPc = "ready"
    /\ SetStringCache(Prealloc(StringCache))
    /\ scLastOp' = ScOp("Prealloc", EmptyString)
    /\ scRet' = ScNoRet
    /\ UNCHANGED <<scNewArg, scHist, lruVars, mtVars>>

\* cache.Validate(); a panic or a walk that never ends is the end of the run
ValidateAct ==
    /\ scPc = "ready"
    /\ LET r == ValidateCall(StringCache)
       IN  /\ SetStringCache(IF r.err \in ValidateAborts
                             THEN [r.sc EXCEPT !.pc = "panic"]
                             ELSE r.sc)
           /\ scRet' = [ScNoRet EXCEPT !.err = r.err]
    /\ scLastOp' = ScOp("Validate", EmptyString)
    /\ UNCHANGED <<scNewArg, scHist, lruVars, mtVars>>

\* mu.Lock() by goroutine t, about to call Intern
LockAct(t) ==
    /\ scPc = "ready"
    /\ thr[t].pc = "idle"
    /\ thr[t].calls < MaxThreadCalls
    /\ CanLock(mu)
    /\ mu' = t
    /\ thr' = [thr EXCEPT ![t].pc = "calling"]
    /\ UNCHANGED <<raced, scVars, lruVars>>

\* goroutine t is about to call Intern without taking a lock
CallUnlockedAct(t) ==
    /\ scPc = "ready"
    /\ thr[t].pc = "idle"
    /\ thr[t].calls < MaxThreadCalls
    /\ thr' = [thr EXCEPT ![t].pc = "calling"]
    /\ UNCHANGED <<mu, raced, scVars, lruVars>>

\* goroutine t enters cache.Intern(v)
BeginAct(t, v) ==
    /\ scPc = "ready"
    /\ thr[t].pc = "calling"
    /\ thr' = [thr EXCEPT ![t].pc = "lookup", ![t].v = v]
    /\ scHist' = HistIntern(scHist, scMaxSize, v, FALSE)
    /\ raced' = (raced \/ \E u \in Threads \ {t} : thr[u].pc \in InternPcs)
    /\ UNCHANGED <<mu, scPc, scNewArg, scMaxSize, scSize, hitCount, missCount, scBuf,
                   scValues, scLastOp, scRet, lruVars>>

\* goroutine t takes the next step of its Intern call
InternStepAct(t) ==
    /\ scPc = "ready"
    /\ thr[t].pc \in InternPcs
    /\ LET r == InternStep(StringCache, thr[t])
       IN  /\ SetStringCache(r.sc)
           /\ thr' = [thr EXCEPT ![t] = r.th]
    /\ UNCHANGED <<mu, raced, scNewArg, scLastOp, scRet, scHist, lruVars>>

\* mu.Unlock() by goroutine t after its Intern call returned
UnlockAct(t) ==
    /\ scPc = "ready"
    /\ thr[t].pc = "return"
    /\ mu = t
    /\ mu' = 0
    /\ thr' = [thr EXCEPT ![t].pc = "check"]
    /\ UNCHANGED <<raced, scVars, lruVars>>

\* the Intern call of goroutine t returned, no lock to release
ReturnUnlockedAct(t) ==
    /\ scPc = "ready"
    /\ thr[t].pc = "return"
    /\ thr' = [thr EXCEPT ![t].pc = "check"]
    /\ UNCHANGED <<mu, raced, scVars, lruVars>>

\* if v != k { c.Errorf(...); return }, else on to the next key
CheckAct(t) ==
    /\ scPc = "ready"
    /\ thr[t].pc = "check"
    /\ thr' = [thr EXCEPT ![t].pc = IF thr[t].ret.content # thr[t].v.content
                                    THEN "failed"
                                    ELSE "idle",
                          ![t].calls = thr[t].calls + 1]
    /\ UNCHANGED <<mu, raced, scVars, lruVars>>

\* lru.New(n) and lru.NewStringCache(n): an LRU and a StringCache of the same
\* capacity, to be driven side by side
NewPairAct(n) ==
    /\ pc = "start"
    /\ scPc = "start"
    /\ newArg' = n
    /\ SetCache(New(n))
    /\ SetList(ListNew(n))
    /\ lastOp' = Op("New", NilKey, NilValue, FALSE)
    /\ ret' = NoRet
    /\ lstRet' = NoRet
    /\ evicted' = NilKey
    /\ scen' = ScenOff
    /\ scNewArg' = n
    /\ SetStringCache(NewStringCache(n))
    /\ scLastOp' = ScOp("NewStringCache", EmptyString)
    /\ scRet' = ScNoRet
    /\ scHist' = HistStart
    /\ UNCHANGED <<touchOrder, touched, lastAdded, mtVars>>

\* cache.Intern(v) on the StringCache and, on the LRU, Get(v) if it hits, else
\* Add(v, v); the LRU's key is the string's content, as the map compares it
InternPairAct(v, driver) ==
    /\ pc = "ready"
    /\ scPc = "ready"
    /\ LET r == Intern(StringCache, v)
       IN  /\ SetStringCache(r.sc)
           /\ scRet' = [ScNoRet EXCEPT !.str = r.ret]
    /\ scLastOp' = ScOp("Intern", v)
    /\ scHist' = HistIntern(scHist, scMaxSize, v, driver)
    /\ LET key == v.content
           g == LRUGet(Cache, key)
           a == LRUAdd(Cache, key, v)
           lg == ListGet(ListCache, key)
       IN  IF g.ret.found
           THEN /\ SetCache(g.c)
                /\ ret' = g.ret
                /\ evicted' = NilKey
                /\ lastOp' = Op("Get", key, NilValue, WasCached(key))
                /\ SetList(lg.l)
                /\ lstRet' = lg.ret
                /\ UNCHANGED lastAdded
           ELSE /\ SetCache(a.c)
                /\ ret' = NoRet
                /\ evicted' = a.evicted
                /\ lastOp' = Op("Add", key, v, WasCached(key))
                /\ SetList(ListAdd(ListCache, key, v))
                /\ lstRet' = NoRet
                /\ lastAdded' = MapSet(lastAdded, key, v)
    /\ touchOrder' = Touch(touchOrder, v.content)
    /\ touched' = Touch(touched, v.content)
    /\ scen' = ScenOff
    /\ UNCHANGED <<newArg, scNewArg, mtVars>>

\* Capacities 0..MaxCap, keys 1..MaxKey.
Next ==
    \/ \E n \in Capacities : NewAct(n)
    \/ \E key \in Keys, value \in Values : AddAct(key, value)
    \/ \E key \in Keys : GetAct(key)
    \/ \E key \in Keys : PeekAct(key)
    \/ LenAct

Spec == Init /\ [][Next]_vars

\* The capacities at both edges of the range New accepts, keys 1..MaxKeyNew.
NextNew ==
    \/ \E n \in EdgeCapacities : NewAct(n)
    \/ \E key \in KeysNew, value \in Values : AddAct(key, value)
    \/ \E key \in KeysNew : GetAct(key)
    \/ \E key \in KeysNew : PeekAct(key)
    \/ LenAct

SpecNew == Init /\ [][NextNew]_vars

\* Every run of the test scenario and nothing else: capacities 1..MaxCapScen,
\* keys 1..MaxKeyScen, and only the calls that continue the scenario.
NextScen ==
    \/ \E n \in CapacitiesScen : NewAct(n) /\ scen'.live
    \/ \E key \in KeysScen, value \in Values : AddAct(key, value) /\ scen'.live
    \/ \E key \in KeysScen : GetAct(key) /\ scen'.live

SpecScen == Init /\ [][NextScen]_vars

\* The capacity is above initialBufLimit: the arena grows while the cache fills.
GrowingCache == BigGT(scMaxSize, FromInt(initialBufLimit))

\* The strings SpecSC chooses from on a growing cache: one content the driver
\* never interns, in both instances, and the driver's first string in another
\* instance.
GrowStrings == {String(1, i) : i \in Instances} \cup {String(MaxContent + 1, 2)}

\* On a growing cache SpecSC lets the driver run from its first call until the
\* first arena is full without other calls in between.
DriverIdle == scHist.burst = 0 \/ scHist.burst >= initialBufLimit

\* On a growing cache SpecSC makes at most MaxFreeGrow freely chosen Intern
\* calls, and at most one of them before the driver starts.
FreeCallsInScope ==
    /\ scHist.interns - scHist.burst <= MaxFreeGrow
    /\ scHist.burst = 0 => scHist.interns <= 1

\* The StringCache. Capacities -2..MaxCapSC: contents 1..MaxContent in two
\* instances each, at most MaxInterns Intern calls, every interleaving of the
\* calls. Capacities of GrowCapacities: the driver fills the cache past its
\* first arena, Intern calls with a string of GrowStrings and Prealloc come
\* before and after; what the read-only calls return there is read off the
\* state by the properties.
NextSC ==
    \/ \E n \in CapacitiesSC \cup GrowCapacities : NewStringCacheAct(n)
    \/ \E v \in Strings : ~GrowingCache /\ InternAct(v)
    \/ \E v \in GrowStrings :
           GrowingCache /\ DriverIdle /\ InternAct(v) /\ FreeCallsInScope'
    \/ GrowingCache /\ InternNextAct
    \/ \E c \in Contents : ~GrowingCache /\ ContainsAct(String(c, 1))
    \/ ~GrowingCache /\ StringCacheLenAct
    \/ ~GrowingCache /\ HitCountsAct
    \/ (GrowingCache => DriverIdle) /\ PreallocAct
    \/ ~GrowingCache /\ ValidateAct

SpecSC == Init /\ [][NextSC]_vars

\* The capacities at both edges of the range NewStringCache is documented to
\* accept. Prealloc is left out: it would allocate maxSize+1 slots.
NextSCNew ==
    \/ \E n \in EdgeCapacities : NewStringCacheAct(n)
    \/ \E v \in Strings : InternAct(v)
    \/ \E v \in Strings : ContainsAct(v)
    \/ StringCacheLenAct
    \/ HitCountsAct

SpecSCNew == Init /\ [][NextSCNew]_vars

\* The capacity of the LRU is above initialBufLimit: the arena grows while the
\* cache fills.
GrowingLRU == BigGT(maxSize, FromInt(initialBufLimit))

\* The keys SpecArena chooses from on a growing LRU: one the driver never adds
\* and the first one it adds.
GrowKeys == {1, FirstDriverKey}

\* On a growing LRU SpecArena lets the driver run from its first call until the
\* first arena is full without other calls in between.
LRUDriverIdle == DriverAdds = 0 \/ DriverAdds >= initialBufLimit

\* The LRU of SpecArena. Capacities 0..MaxCap: every interleaving of the calls
\* with keys 1..MaxKey. Capacities of GrowCapacitiesLRU: the driver fills the
\* cache past its first arena, Add and Get with a key of GrowKeys come before
\* and after.
NextLRUArena ==
    \/ \E n \in Capacities \cup GrowCapacitiesLRU : NewAct(n)
    \/ \E key \in Keys, value \in Values : ~GrowingLRU /\ AddAct(key, value)
    \/ \E key \in Keys : ~GrowingLRU /\ GetAct(key)
    \/ \E key \in Keys : ~GrowingLRU /\ PeekAct(key)
    \/ ~GrowingLRU /\ LenAct
    \/ \E key \in GrowKeys : GrowingLRU /\ LRUDriverIdle /\ AddAct(key, "b")
    \/ \E key \in GrowKeys : GrowingLRU /\ LRUDriverIdle /\ GetAct(key)
    \/ GrowingLRU /\ AddNextAct

\* The StringCache of SpecArena: as in SpecSC, with every string in one
\* instance, which is all the arena and the lookup table depend on.
NextSCArena ==
    \/ \E n \in CapacitiesSC \cup GrowCapacities : NewStringCacheAct(n)
    \/ \E c \in Contents : ~GrowingCache /\ InternAct(String(c, 1))
    \/ GrowingCache /\ DriverIdle /\ InternAct(String(1, 1)) /\ FreeCallsInScope'
    \/ GrowingCache /\ InternNextAct
    \/ \E c \in Contents : ~GrowingCache /\ ContainsAct(String(c, 1))
    \/ ~GrowingCache /\ StringCacheLenAct
    \/ ~GrowingCache /\ HitCountsAct
    \/ (GrowingCache => DriverIdle) /\ PreallocAct
    \/ ~GrowingCache /\ ValidateAct

\* A run constructs one cache, an LRU or a StringCache, and calls it as in
\* NextLRUArena or in NextSCArena.
NextArena ==
    \/ scPc = "start" /\ NextLRUArena
    \/ pc = "start" /\ NextSCArena

SpecArena == Init /\ [][NextArena]_vars

\* Capacities NewStringCache is called with in SpecMT and SpecRace.
CapacitiesMT == {FromInt(n) : n \in 1..MaxCapSC}

\* TestInternMultithreaded: the goroutines intern the same keys in the same
\* order, each call between mu.Lock() and mu.Unlock(); once all are done the
\* test reads Len and HitCounts, and Validate is called.
NextMT ==
    \/ \E n \in CapacitiesMT : NewStringCacheAct(n)
    \/ \E t \in Threads : LockAct(t)
    \/ \E t \in Threads : BeginAct(t, TestKey(thr[t].calls))
    \/ \E t \in Threads : InternStepAct(t)
    \/ \E t \in Threads : UnlockAct(t)
    \/ \E t \in Threads : CheckAct(t)
    \/ StringCacheLenAct /\ AllDone
    \/ HitCountsAct /\ AllDone
    \/ ValidateAct /\ AllDone

SpecMT == Init /\ [][NextMT]_vars

\* The two goroutines whose calls SpecRace interleaves, and their strings.
RaceThreads == {1, 2}
RaceStrings == {String(t, 1) : t \in RaceThreads}

\* Two goroutines call Intern on one StringCache without a lock, at most
\* MaxRaceCalls times each: their steps interleave freely.
NextRace ==
    \/ \E n \in CapacitiesMT : NewStringCacheAct(n)
    \/ \E t \in RaceThreads : CallUnlockedAct(t) /\ thr[t].calls < MaxRaceCalls
    \/ \E t \in RaceThreads, v \in RaceStrings : BeginAct(t, v)
    \/ \E t \in RaceThreads : InternStepAct(t)
    \/ \E t \in RaceThreads : ReturnUnlockedAct(t)
    \/ \E t \in RaceThreads : CheckAct(t)

SpecRace == Init /\ [][NextRace]_vars

\* An LRU and a StringCache of the same capacity side by side, each Intern(v)
\* mirrored on the LRU. Capacities 1..MaxCapSC: at most MaxInterns calls with
\* any string. Capacities above initialBufLimit, where the two arenas grow by
\* different factors: the driver interns fresh strings past the first arena,
\* calls with a string of GrowStrings come before and after.
NextPair ==
    \/ \E n \in CapacitiesMT \cup GrowCapacities \cup GrowCapacitiesLRU : NewPairAct(n)
    \/ \E v \in Strings :
           ~GrowingCache /\ scHist.interns < MaxInterns /\ InternPairAct(v, FALSE)
    \/ \E v \in GrowStrings :
           GrowingCache /\ DriverIdle /\ InternPairAct(v, FALSE) /\ FreeCallsInScope'
    \/ GrowingCache /\ scHist.burst < MaxBurst /\ InternPairAct(NextFresh, TRUE)

SpecPair == Init /\ [][NextPair]_vars

\* Every StringCache structure of capacity MaxCorruptCap with a full-length
\* arena whose indices are all in range: any prev and next in every slot, the
\* root included, any size up to the capacity, any lookup table from the
\* contents to the slots; slot i holds the string of content i.
CorruptSlots == 0..MaxCorruptCap
CorruptLinks == [CorruptSlots -> [prev : CorruptSlots, next : CorruptSlots]]
CorruptMaps == UNION {[D -> CorruptSlots] : D \in SUBSET (1..MaxCorruptCap)}
CorruptBuf(l) ==
    [i \in CorruptSlots |->
        [value |-> IF i = 0 THEN EmptyString ELSE String(i, 1),
         prev |-> l[i].prev, next |-> l[i].next]]

InitCorrupt ==
    /\ pc = "start"
    /\ newArg = FromInt(0)
    /\ size = 0
    /\ maxSize = FromInt(0)
    /\ buf = MakeBuf(0)
    /\ elements = EmptyMap
    /\ lastOp = Op("none", NilKey, NilValue, FALSE)
    /\ ret = NoRet
    /\ evicted = NilKey
    /\ lstMaxSize = FromInt(0)
    /\ lstKeys = <<>>
    /\ lstValues = EmptyMap
    /\ lstRet = NoRet
    /\ touchOrder = <<>>
    /\ touched = <<>>
    /\ lastAdded = EmptyMap
    /\ scen = ScenOff
    /\ scPc = "ready"
    /\ scNewArg = FromInt(MaxCorruptCap)
    /\ scMaxSize = FromInt(MaxCorruptCap)
    /\ scSize \in 0..MaxCorruptCap
    /\ hitCount = 0
    /\ missCount = 0
    /\ \E l \in CorruptLinks : scBuf = CorruptBuf(l)
    /\ scValues \in CorruptMaps
    /\ scLastOp = ScOp("none", EmptyString)
    /\ scHist = HistStart
    /\ mu = 0
    /\ thr = [t \in Threads |-> Goroutine]
    /\ raced = FALSE
    /\ scRet = ScNoRet

\* Validate is called on each of these structures.
NextCorrupt == ValidateAct

SpecCorrupt == InitCorrupt /\ [][NextCorrupt]_vars

\* ------------------------------------------------------------ properties
AllKeys == Keys \cup KeysNew \cup KeysScen
cacheVars == <<pc, size, maxSize, buf, elements>>

RECURSIVE WalkFrom(_, _, _)
\* The slots met following next from slot cur until the root, at most fuel of
\* them; the walk is made as two halves to keep the evaluation shallow on a
\* long list.
WalkFrom(b, cur, fuel) ==
    IF cur = 0 \/ fuel = 0
    THEN <<>>
    ELSE IF fuel = 1
    THEN <<cur>>
    ELSE LET half == fuel \div 2
             first == WalkFrom(b, cur, half)
         IN  IF Len(first) < half
             THEN first
             ELSE first \o WalkFrom(b, b[first[half]].next, fuel - half)

RECURSIVE WalkBackFrom(_, _, _)
\* The slots met following prev from slot cur until the root, at most fuel of them.
WalkBackFrom(b, cur, fuel) ==
    IF cur = 0 \/ fuel = 0
    THEN <<>>
    ELSE IF fuel = 1
    THEN <<cur>>
    ELSE LET half == fuel \div 2
             first == WalkBackFrom(b, cur, half)
         IN  IF Len(first) < half
             THEN first
             ELSE first \o WalkBackFrom(b, b[first[half]].prev, fuel - half)

\* The keys met following next from the root.
KeysFromRoot ==
    IF BufLen(buf) = 0
    THEN <<>>
    ELSE LET slots == WalkFrom(buf, buf[0].next, BufLen(buf))
         IN  [i \in 1..Len(slots) |-> buf[slots[i]].key]

DistinctAdded == Cardinality(DOMAIN lastAdded)

\* C1: after every call Len() is the smaller of the capacity and the number of
\* distinct keys ever passed to Add (so Len() <= N, and Len() = N for good once
\* N distinct keys were added); a Len call returns that number.
C1_LenIsMinOfCapacityAndDistinctAdds ==
    pc = "ready" =>
        /\ LRULen(Cache) = MinIntBig(DistinctAdded, maxSize)
        /\ lastOp.op = "Len" => ret.len = MinIntBig(DistinctAdded, maxSize)

\* C1 witness: Len was called on a full cache after more distinct keys than the
\* capacity had been added.
C1_Witness ==
    /\ pc = "ready"
    /\ lastOp.op = "Len"
    /\ BigLT(maxSize, FromInt(DistinctAdded))
    /\ FromInt(ret.len) = maxSize

\* More distinct keys have been touched than the cache can hold.
MoreTouchedThanFit == BigLT(maxSize, FromInt(Len(touchOrder)))

\* C2: following next from the root gives the cached keys from most to least
\* recently touched; the key an Add removes is the least recently touched one;
\* the cache holds the same keys in the same order with the same values as the
\* container/list LRU, and every call returned what it returned there.
C2_OrderAndResultsMatchListLRU ==
    pc = "ready" =>
        /\ KeysFromRoot = Retained(touchOrder, maxSize)
        /\ DOMAIN elements = Range(Retained(touchOrder, maxSize))
        /\ evicted # NilKey =>
               /\ lastOp.op = "Add"
               /\ ~lastOp.cached
               /\ MoreTouchedThanFit
               /\ evicted = touchOrder[ToInt(maxSize) + 1]
        /\ (lastOp.op = "Add" /\ ~lastOp.cached /\ MoreTouchedThanFit)
               => evicted # NilKey
        /\ KeysFromRoot = lstKeys
        /\ \A k \in AllKeys : LRUPeek(Cache, k).ret = ListPeek(ListCache, k).ret
        /\ LRULen(Cache) = ListLen(ListCache)
        /\ ret = lstRet

\* C2 witness: an Add has just evicted a key from a cache of two or more keys.
C2_Witness ==
    /\ pc = "ready"
    /\ lastOp.op = "Add"
    /\ evicted # NilKey
    /\ Len(KeysFromRoot) >= 2

ScenKey(i) == scen.adds[i][1]
ScenValue(i) == scen.adds[i][2]

\* C3: after Add of pairwise distinct k1..kN into a cache of capacity N and one
\* Add of a further distinct key, Peek(k1) reports not found and Peek of each
\* of k2..kN+1 reports found with the value it was added with.
C3_AddToFullEvictsFirstAdded ==
    (pc = "ready" /\ scen.live /\ scen.gets = 0 /\ FromInt(Len(scen.adds)) = BigAdd(maxSize, 1)) =>
        /\ LRUPeek(Cache, ScenKey(1)).ret = NotFound
        /\ \A i \in 2..Len(scen.adds) :
               LRUPeek(Cache, ScenKey(i)).ret = Found(ScenValue(i))

\* C3 witness: the scenario has run to its end on a cache of capacity 3.
C3_Witness ==
    /\ pc = "ready" /\ scen.live /\ scen.gets = 0
    /\ maxSize = FromInt(3)
    /\ Len(scen.adds) = 4

\* C4: after filling a cache of capacity N >= 3 with k1..kN, Get(k1), Get(k2)
\* and Add of a new key, k3 is evicted and every other key is present with
\* its value.
C4_GetRefreshesRecency ==
    (pc = "ready" /\ scen.live /\ scen.gets = 2 /\ BigLE(FromInt(3), maxSize)
        /\ FromInt(Len(scen.adds)) = BigAdd(maxSize, 1)) =>
        /\ LRUPeek(Cache, ScenKey(3)).ret = NotFound
        /\ \A i \in (1..Len(scen.adds)) \ {3} :
               LRUPeek(Cache, ScenKey(i)).ret = Found(ScenValue(i))

\* C4 witness: the scenario with the two Gets has run to its end on a cache
\* of capacity 3.
C4_Witness ==
    /\ pc = "ready" /\ scen.live /\ scen.gets = 2
    /\ maxSize = FromInt(3)
    /\ Len(scen.adds) = 4

\* C5: a Peek, hit or miss, leaves size, arena (length, links, keys, values)
\* and lookup table unchanged.
C5_PeekChangesNothing ==
    [][lastOp'.op = "Peek" => UNCHANGED cacheVars]_vars

\* C5 witness: Peek hit a key that is not at the front of the list.
C5_Witness ==
    /\ pc = "ready"
    /\ lastOp.op = "Peek"
    /\ ret.found
    /\ buf[0].next # elements[lastOp.key]

\* C6: a Get of a key that is not cached returns (nil, false) and leaves size,
\* arena and lookup table unchanged.
C6_GetMissChangesNothing ==
    [][(lastOp'.op = "Get" /\ lastOp'.key \notin DOMAIN elements) =>
           (ret' = NotFound /\ UNCHANGED cacheVars)]_vars

\* C6 witness: Get missed on a full cache of two or more keys.
C6_Witness ==
    /\ pc = "ready"
    /\ lastOp.op = "Get"
    /\ ~ret.found
    /\ FromInt(size) = maxSize
    /\ size >= 2

\* C7: Add(k, v2) of a cached key k evicts nothing, leaves Len() and the set of
\* cached keys unchanged, leaves every other key's value unchanged, and
\* afterwards Get(k) and Peek(k) return v2.
C7_ReAddReplacesValue ==
    [][(lastOp'.op = "Add" /\ lastOp'.key \in DOMAIN elements) =>
           /\ LRULen(Cache)' = LRULen(Cache)
           /\ DOMAIN elements' = DOMAIN elements
           /\ evicted' = NilKey
           /\ \A k \in (DOMAIN elements) \ {lastOp'.key} :
                  LRUPeek(Cache', k).ret = LRUPeek(Cache, k).ret
           /\ LRUPeek(Cache', lastOp'.key).ret = Found(lastOp'.value)
           /\ LRUGet(Cache', lastOp'.key).ret = Found(lastOp'.value)]_vars

\* C7 witness: a cached key was added again on a full cache of two or more keys.
C7_Witness ==
    /\ pc = "ready"
    /\ lastOp.op = "Add"
    /\ lastOp.cached
    /\ FromInt(size) = maxSize
    /\ size >= 2

\* C8: Get(k) and Peek(k) return (v, true) with v the value of the most recent
\* Add(k, .) for every cached key k, and report not found for every other key;
\* the Get or Peek that was just made returned exactly that.
C8_LookupReturnsLastAddedValue ==
    pc = "ready" =>
        /\ \A k \in AllKeys :
               IF WasCached(k)
               THEN /\ LRUPeek(Cache, k).ret = Found(lastAdded[k])
                    /\ LRUGet(Cache, k).ret = Found(lastAdded[k])
               ELSE /\ LRUPeek(Cache, k).ret = NotFound
                    /\ LRUGet(Cache, k).ret = NotFound
        /\ lastOp.op \in {"Get", "Peek"} =>
               ret = IF lastOp.cached THEN Found(lastAdded[lastOp.key]) ELSE NotFound

\* C8 witness: Get hit a key while another key, added earlier, has been evicted.
C8_Witness ==
    /\ pc = "ready"
    /\ lastOp.op = "Get"
    /\ ret.found
    /\ \E k \in DOMAIN lastAdded : k \notin DOMAIN elements

\* C9: New(capacity) panics exactly when capacity <= 0 or capacity > 2^32-1;
\* otherwise it returns an empty cache: Len() is 0 and every Peek reports not
\* found.
C9_NewPanicsExactlyOutsideRange ==
    lastOp.op = "New" =>
        /\ pc = "panic" <=> (BigLE(newArg, FromInt(0)) \/ BigGT(newArg, maxLRUSize))
        /\ pc = "ready" =>
               /\ maxSize = newArg
               /\ LRULen(Cache) = 0
               /\ \A k \in AllKeys : LRUPeek(Cache, k).ret = NotFound

\* C9 witness: New returned a cache for the largest accepted capacity.
C9_Witness ==
    /\ lastOp.op = "New"
    /\ pc = "ready"
    /\ newArg = maxLRUSize

\* C10: NewStringCache(capacity) aborts for every capacity <= 0, zero as well
\* as negative: no StringCache is returned.
C10_NonPositiveCapacityAborts ==
    (scLastOp.op = "NewStringCache" /\ BigLE(scNewArg, FromInt(0))) => scPc = "panic"

\* C11: NewStringCache(capacity) aborts for every capacity above 2^32-1, the
\* largest value a uint32 slot index holds, so that uint32(size) in Intern
\* never wraps.
C11_CapacityAboveUint32Aborts ==
    (scLastOp.op = "NewStringCache" /\ BigGT(scNewArg, maxLRUSize)) => scPc = "panic"

\* A StringCache of capacity N >= 1 has been constructed.
StringCacheReady == scPc = "ready" /\ BigLE(FromInt(1), scMaxSize)

\* C12: for a StringCache of any capacity N >= 1, Validate reports no error
\* after every Intern, Contains, Prealloc, Len and HitCounts call (and after
\* construction).
C12_ValidateNeverFails ==
    StringCacheReady => Validate(StringCache) = ValidateOk

\* C12 witness: Validate returned nil on a cache that has evicted a string and
\* has served a hit.
C12_Witness ==
    /\ StringCacheReady
    /\ scLastOp.op = "Validate"
    /\ scRet.err = ValidateOk
    /\ BigLT(scMaxSize, FromInt(missCount))
    /\ hitCount > 0

\* An Intern call on a StringCache of capacity N >= 1 has just returned.
InternReturned == StringCacheReady' /\ scLastOp'.op = "Intern"

\* C13: while a content stays cached, every Intern call with equal content
\* returns the string that was passed to the Intern call that inserted it, not
\* the one passed now, and counts as a hit and not as a miss; the arena may
\* have grown or been preallocated in between.
C13_InternReturnsCanonicalInstance ==
    [][(InternReturned /\ scLastOp'.str.content \in HistCached(scHist, scMaxSize)) =>
           /\ scRet'.str = scHist.canon[scLastOp'.str.content]
           /\ hitCount' = hitCount + 1
           /\ missCount' = missCount]_vars

\* C13 witness: the arena has grown since a string was interned, and Intern of
\* an equal string in another instance returned the first one.
C13_Witness ==
    /\ StringCacheReady
    /\ scLastOp.op = "Intern"
    /\ scHist.wasCached
    /\ scRet.str.inst # scLastOp.str.inst
    /\ scRet.str.content = 1
    /\ scHist.burst >= initialBufLimit
    /\ BufLen(scBuf) > initialBufMax

\* The last call was Intern on a StringCache constructed with capacity N >= 1.
AfterIntern == scLastOp.op = "Intern" /\ BigLE(FromInt(1), scMaxSize)

\* C14: every Intern(s) on a StringCache of capacity N >= 1 returns a string
\* whose content equals s; on a miss it returns the very instance passed in.
C14_InternReturnsEqualContent ==
    AfterIntern =>
        /\ scPc = "ready"
        /\ scRet.str.content = scLastOp.str.content
        /\ ~scHist.wasCached => scRet.str = scLastOp.str

\* C14 witness: Intern missed on a full cache and returned the second instance
\* it was passed.
C14_Witness ==
    /\ AfterIntern
    /\ scPc = "ready"
    /\ ~scHist.wasCached
    /\ scLastOp.str.inst = 2
    /\ scRet.str = scLastOp.str
    /\ BigLT(scMaxSize, FromInt(Len(scHist.order)))

\* C15: Hit + Miss equals the number of Intern calls since construction; each
\* Intern call adds exactly 1 to exactly one counter, to Hit if and only if
\* the content was cached immediately before the call (Contains was true; for
\* a capacity N >= 1 that is: it is among the N most recently interned, so an
\* evicted string interned again is a miss); no other call changes a counter.
C15_CountersCountInternCalls ==
    [][/\ (scPc' = "ready" /\ scLastOp'.op = "Intern") =>
              LET cached == Contains(StringCache, scLastOp'.str)
              IN  /\ HitCounts(StringCache').Hit =
                         HitCounts(StringCache).Hit + (IF cached THEN 1 ELSE 0)
                  /\ HitCounts(StringCache').Miss =
                         HitCounts(StringCache).Miss + (IF cached THEN 0 ELSE 1)
                  /\ StringCacheReady =>
                         (cached <=> scLastOp'.str.content \in HistCached(scHist, scMaxSize))
       /\ (scPc' = "ready" /\ scLastOp'.op \notin {"Intern", "NewStringCache"}) =>
              HitCounts(StringCache') = HitCounts(StringCache)
       /\ scPc' = "ready" =>
              HitCounts(StringCache').Hit + HitCounts(StringCache').Miss = scHist'.interns
      ]_vars

\* C15 witness: HitCounts reported hits, and more misses than distinct contents
\* were interned: an evicted string was interned again.
C15_Witness ==
    /\ StringCacheReady
    /\ scLastOp.op = "HitCounts"
    /\ scRet.counts.Hit > 0
    /\ scRet.counts.Miss > Len(scHist.order)
    /\ scRet.counts.Hit + scRet.counts.Miss = scHist.interns

\* Every content a call of SpecSC can pass, and the empty string's.
AllContents == 0..(MaxContent + MaxBurst + 1)

\* C16: on a StringCache of capacity N >= 1, Contains(s) is true exactly for
\* the min(N, d) most recently interned distinct contents, d being the number
\* of distinct contents interned so far, and Len() is min(N, d); Contains(s)
\* is true right after Intern(s).
C16_ContainsTheMostRecentlyInterned ==
    StringCacheReady =>
        /\ {c \in AllContents : Contains(StringCache, String(c, 1))} =
               HistCached(scHist, scMaxSize)
        /\ StringCacheLen(StringCache) = MinIntBig(Len(scHist.order), scMaxSize)
        /\ scLastOp.op = "Intern" => Contains(StringCache, scLastOp.str)
        /\ scLastOp.op = "Contains" =>
               (scRet.ok <=> scLastOp.str.content \in HistCached(scHist, scMaxSize))
        /\ scLastOp.op = "Len" => scRet.len = MinIntBig(Len(scHist.order), scMaxSize)

\* C16 witness: more pairwise distinct strings than the capacity were interned,
\* none twice, and Contains reported one of them as no longer contained.
C16_Witness ==
    /\ StringCacheReady
    /\ scLastOp.op = "Contains"
    /\ ~scRet.ok
    /\ scLastOp.str.content \in Range(scHist.order)
    /\ scHist.interns = Len(scHist.order)
    /\ BigLT(scMaxSize, FromInt(Len(scHist.order)))

\* The recency order of a StringCache: the contents met following next from
\* the root, most recently used first.
KeysFromStringRoot(sc) ==
    LET slots == WalkFrom(sc.buf, sc.buf[0].next, BufLen(sc.buf))
    IN  [i \in 1..Len(slots) |-> sc.buf[slots[i]].value.content]

\* The fields of the StringCache: size, counters, arena, lookup table.
stringCacheVars == <<scPc, scMaxSize, scSize, hitCount, missCount, scBuf, scValues>>

\* C17: Contains(s), whether it returns true or false, changes nothing:
\* recency order, Len, hit and miss counters, arena and lookup table stay as
\* they were, so what is evicted next and what HitCounts returns later do not
\* depend on Contains calls made in between.
C17_ContainsChangesNothing ==
    [][scLastOp'.op = "Contains" =>
           /\ UNCHANGED stringCacheVars
           /\ KeysFromStringRoot(StringCache') = KeysFromStringRoot(StringCache)
           /\ StringCacheLen(StringCache') = StringCacheLen(StringCache)
           /\ HitCounts(StringCache') = HitCounts(StringCache)]_vars

\* C17 witness: Contains returned true for the least recently used string of a
\* full cache holding two or more, the one the next miss evicts.
C17_Witness ==
    /\ StringCacheReady
    /\ scLastOp.op = "Contains"
    /\ scRet.ok
    /\ scSize >= 2
    /\ FromInt(scSize) = scMaxSize
    /\ scBuf[scBuf[0].prev].value.content = scLastOp.str.content

\* C20: Validate is read-only: on every reachable StringCache state a call
\* leaves size, counters, arena (every prev, next and value, and its length)
\* and lookup table (its entries and their number) unchanged.
C20_ValidateIsReadOnly ==
    [][scLastOp'.op = "Validate" =>
           /\ UNCHANGED stringCacheVars
           /\ BufLen(scBuf') = BufLen(scBuf)
           /\ Cardinality(DOMAIN scValues') = Cardinality(DOMAIN scValues)]_vars

\* C20 witness: Validate ran on a cache holding strings in an arena with
\* unused slots.
C20_Witness ==
    /\ scPc = "ready"
    /\ scLastOp.op = "Validate"
    /\ scSize >= 1
    /\ BufLen(scBuf) > scSize + 1

\* C18: goroutines call Intern on one StringCache of capacity N >= 1, every
\* call while holding one shared mutex. In every interleaving each call returns
\* a string whose content equals its argument and nothing panics; once all
\* goroutines are done Hit + Miss is the number of Intern calls they made,
\* Len() is min(N, number of distinct contents interned) and Validate()
\* reports no error.
C18_InternUnderMutex ==
    /\ scPc \in {"start", "ready"}
    /\ \A t \in Threads :
           /\ thr[t].pc # "failed"
           /\ thr[t].pc \in {"return", "check"} => thr[t].ret.content = thr[t].v.content
    /\ AllDone =>
           /\ scHist.interns = MaxThreads * MaxThreadCalls
           /\ HitCounts(StringCache).Hit + HitCounts(StringCache).Miss = scHist.interns
           /\ StringCacheLen(StringCache) = MinIntBig(Len(scHist.order), scMaxSize)
           /\ Validate(StringCache) = ValidateOk
           /\ scLastOp.op = "Len" => scRet.len = MinIntBig(Len(scHist.order), scMaxSize)
           /\ scLastOp.op = "HitCounts" =>
                  scRet.counts.Hit + scRet.counts.Miss = scHist.interns
           /\ scLastOp.op = "Validate" => scRet.err = ValidateOk

\* C18 witness: all goroutines are done on a cache of capacity 1, Validate
\* returned nil, and there were hits: with keys that differ from call to call
\* a hit needs another goroutine's call of the same key in between.
C18_Witness ==
    /\ AllDone
    /\ scMaxSize = FromInt(1)
    /\ scLastOp.op = "Validate"
    /\ scRet.err = ValidateOk
    /\ hitCount > 0
    /\ Len(scHist.order) > 1

\* No Intern call is in progress.
Quiescent == \A t \in Threads : thr[t].pc \in {"idle", "failed"}

\* Two strings of the lookup table are mapped to the same slot.
TwoKeysOneSlot ==
    \E c, d \in DOMAIN scValues : c # d /\ scValues[c] = scValues[d]

\* The structural invariants of the StringCache between calls: Validate finds
\* no error, no two strings share a slot, the lookup table has size entries.
StructureIntact ==
    /\ Validate(StringCache) = ValidateOk
    /\ ~TwoKeysOneSlot
    /\ Cardinality(DOMAIN scValues) = scSize

\* C19: the cache is not safe without mutual exclusion. Two Intern calls whose
\* reads and writes of size, arena slots and lookup table interleave can leave
\* the structural invariants violated (the witness); calls that do not overlap
\* never do: a panic or a violated invariant between calls is found only
\* after two calls overlapped.
C19_OnlyOverlappingCallsBreakStructure ==
    (BigLE(FromInt(1), scMaxSize) /\ ~raced) =>
        /\ scPc # "panic"
        /\ Quiescent => StructureIntact

\* C19 witness: two Intern calls of different strings overlapped without a
\* lock and both returned; now both strings are mapped to the same slot and
\* Validate reports an error.
C19_Witness ==
    /\ scPc = "ready"
    /\ raced
    /\ Quiescent
    /\ \A t \in RaceThreads : thr[t].calls = 1
    /\ TwoKeysOneSlot
    /\ Validate(StringCache) # ValidateOk

\* Slot 0 of the LRU is the root: it holds no key and no value, no key is
\* mapped to it, and its next and prev are the slots of the most and of the
\* least recently touched cached key (both 0 exactly on an empty cache).
LRURootIsRoot ==
    pc = "ready" =>
        LET kept == Retained(touchOrder, maxSize)
        IN  /\ buf[0].key = NilKey
            /\ buf[0].value = NilValue
            /\ \A k \in DOMAIN elements : elements[k] # 0
            /\ buf[0].next = 0 <=> size = 0
            /\ buf[0].prev = 0 <=> size = 0
            /\ kept # <<>> =>
                   /\ buf[0].next # 0 /\ buf[buf[0].next].key = kept[1]
                   /\ buf[0].prev # 0 /\ buf[buf[0].prev].key = kept[Len(kept)]

\* The same for the StringCache and the contents interned.
StringRootIsRoot ==
    scPc = "ready" =>
        LET kept == Retained(scHist.order, scMaxSize)
        IN  /\ scBuf[0].value = EmptyString
            /\ \A c \in DOMAIN scValues : scValues[c] # 0
            /\ scBuf[0].next = 0 <=> scSize = 0
            /\ scBuf[0].prev = 0 <=> scSize = 0
            /\ kept # <<>> =>
                   /\ scBuf[0].next # 0 /\ scBuf[scBuf[0].next].value.content = kept[1]
                   /\ scBuf[0].prev # 0 /\ scBuf[scBuf[0].prev].value.content = kept[Len(kept)]

\* C21: in every cache that New or NewStringCache returns, after any sequence
\* of calls, slot 0 is the root and never holds a key or value: no Add or
\* Intern writes into it, no lookup-table entry maps to index 0, and root.next
\* and root.prev are the slots of the most and least recently used entries
\* (both 0 exactly when the cache is empty).
C21_SlotZeroIsTheRoot ==
    /\ LRURootIsRoot
    /\ StringRootIsRoot

\* The StringCache part of C21 on the caches of capacity N >= 1.
StringRootIsRootFromOne == StringCacheReady => StringRootIsRoot

Reverse(s) == [i \in 1..Len(s) |-> s[Len(s) + 1 - i]]

\* C22: after every call on an arena LRU of capacity N >= 1 the list is a
\* well-formed ring through the root: following next from the root meets
\* exactly size non-root slots, each once, and comes back to the root;
\* following prev meets the same slots in reverse order; and for every live
\* slot s, arena[arena[s].prev].next = s and arena[arena[s].next].prev = s.
C22_RingThroughRoot ==
    pc = "ready" =>
        LET fwd == WalkFrom(buf, buf[0].next, BufLen(buf))
            back == WalkBackFrom(buf, buf[0].prev, BufLen(buf))
        IN  /\ Len(fwd) = size
            /\ Range(fwd) = 1..size
            /\ size < BufLen(buf)
            /\ back = Reverse(fwd)
            /\ \A s \in 1..size :
                   /\ buf[buf[s].prev].next = s
                   /\ buf[buf[s].next].prev = s

\* C22 witness: the arena has grown, and a Get has moved the slot filled first
\* from the back of a ring of more than initialBufLimit slots to its front.
C22_Witness ==
    /\ pc = "ready"
    /\ lastOp.op = "Get"
    /\ ret.found
    /\ BufLen(buf) > initialBufMax
    /\ size > initialBufLimit
    /\ buf[0].next = 1
    /\ buf[0].prev = 2

\* C23: after every call on an arena LRU of capacity N >= 1 the lookup table
\* and the live slots correspond one to one: index[key] = s if and only if
\* slot s is live and holds key, every index value is in 1..size, no two keys
\* map to the same slot, and the lookup table has size entries.
C23_IndexMatchesLiveSlots ==
    pc = "ready" =>
        /\ \A k \in DOMAIN elements :
               /\ elements[k] \in 1..size
               /\ buf[elements[k]].key = k
        /\ \A s \in 1..size :
               /\ buf[s].key \in DOMAIN elements
               /\ elements[buf[s].key] = s
        /\ Cardinality({elements[k] : k \in DOMAIN elements}) = Cardinality(DOMAIN elements)
        /\ Cardinality(DOMAIN elements) = size

\* C23 witness: an Add has evicted a key from a cache of more than
\* initialBufLimit keys whose arena has grown.
C23_Witness ==
    /\ pc = "ready"
    /\ lastOp.op = "Add"
    /\ evicted # NilKey
    /\ size > initialBufLimit
    /\ BufLen(buf) > initialBufMax
    /\ evicted \notin DOMAIN elements

\* C24: after construction and after every call the arena length is at least
\* size + 1 and at most capacity + 1; it starts at min(capacity + 1, 101),
\* never shrinks, and no longer changes once it is capacity + 1; for the LRU
\* and for the StringCache, Prealloc included.
C24_ArenaLengthBounds ==
    [][/\ pc' = "ready" =>
              /\ size' + 1 <= BufLen(buf')
              /\ BigLE(FromInt(BufLen(buf')), BigAdd(maxSize', 1))
              /\ lastOp'.op = "New" =>
                     BufLen(buf') = MinIntBig(initialBufMax, BigAdd(maxSize', 1))
              /\ pc = "ready" =>
                     /\ BufLen(buf') >= BufLen(buf)
                     /\ FromInt(BufLen(buf)) = BigAdd(maxSize, 1) =>
                            BufLen(buf') = BufLen(buf)
       /\ scPc' = "ready" =>
              /\ scSize' + 1 <= BufLen(scBuf')
              /\ BigLE(FromInt(BufLen(scBuf')), BigAdd(scMaxSize', 1))
              /\ scLastOp'.op = "NewStringCache" =>
                     BufLen(scBuf') = MinIntBig(initialBufMax, BigAdd(scMaxSize', 1))
              /\ scPc = "ready" =>
                     /\ BufLen(scBuf') >= BufLen(scBuf)
                     /\ FromInt(BufLen(scBuf)) = BigAdd(scMaxSize, 1) =>
                            BufLen(scBuf') = BufLen(scBuf)
              /\ scLastOp'.op = "Prealloc" =>
                     FromInt(BufLen(scBuf')) = BigAdd(scMaxSize', 1)
      ]_vars

\* C24 witness: an LRU of capacity 101 has grown from 101 slots to its final
\* 102 and has evicted a key since.
C24_Witness ==
    /\ pc = "ready"
    /\ lastOp.op = "Add"
    /\ evicted # NilKey
    /\ BufLen(buf) = initialBufMax + 1
    /\ FromInt(BufLen(buf)) = BigAdd(maxSize, 1)

\* Every index stored in the LRU is a slot of its arena.
LRUIndicesInRange(c) ==
    /\ \A i \in DOMAIN c.buf : c.buf[i].prev \in DOMAIN c.buf /\ c.buf[i].next \in DOMAIN c.buf
    /\ \A k \in DOMAIN c.elements : c.elements[k] \in DOMAIN c.buf

\* Every index stored in the StringCache is a slot of its arena.
StringIndicesInRange(sc) ==
    /\ \A i \in DOMAIN sc.buf : sc.buf[i].prev \in DOMAIN sc.buf /\ sc.buf[i].next \in DOMAIN sc.buf
    /\ \A c \in DOMAIN sc.values : sc.values[c] \in DOMAIN sc.buf

\* C25: for every capacity N >= 1 and every sequence of calls, the slot index
\* Add selects for an absent key (size after the increment, or root.prev at
\* capacity) is in 1..len(arena)-1 when it is used, after any growth; the
\* 'outside of buffer range' panic of Add is never reached, and no arena
\* access of Add, Get, Peek or Intern is out of range.
C25_SlotIndexInRange ==
    [][/\ (pc = "ready" /\ lastOp'.op = "Add" /\ lastOp'.key \notin DOMAIN elements) =>
              LET s == AddSelectSlot(Cache)
              IN  s.elem \in 1..(BufLen(s.c.buf) - 1)
       /\ pc = "ready" => pc' = "ready"
       /\ pc' = "ready" => LRUIndicesInRange(Cache')
       /\ StringCacheReady => scPc' = "ready"
       /\ StringCacheReady' => StringIndicesInRange(StringCache')
       /\ (StringCacheReady' /\ scLastOp'.op = "Intern") =>
              scValues'[scLastOp'.str.content] \in 1..(BufLen(scBuf') - 1)
      ]_vars

\* C25 witness: Intern took slot 101 of a StringCache whose arena had 101
\* slots, 0..100, when the call began.
C25_Witness ==
    /\ StringCacheReady
    /\ scLastOp.op = "Intern"
    /\ scSize = initialBufMax
    /\ scValues[scLastOp.str.content] = initialBufMax
    /\ BufLen(scBuf) > initialBufMax

\* This step is an Add of an absent key that grows the arena: size < maxSize,
\* and size after the increment reaches len(buf).
AddGrows ==
    /\ pc = "ready"
    /\ lastOp'.op = "Add"
    /\ lastOp'.key \notin DOMAIN elements
    /\ BigLT(FromInt(size), maxSize)
    /\ size + 1 >= BufLen(buf)

\* This step is an Intern of a string that is not cached that grows the arena.
InternGrows ==
    /\ StringCacheReady
    /\ scLastOp'.op = "Intern"
    /\ ~Contains(StringCache, scLastOp'.str)
    /\ BigLT(FromInt(scSize), scMaxSize)
    /\ scSize + 1 >= BufLen(scBuf)

\* C26: arena growth preserves the structure. When an insertion triggers
\* growth every existing slot keeps its index and its prev, next, key and
\* value, slot 0 stays the root, every lookup-table entry is unchanged, the
\* added slots are zeroed and the new length is strictly larger than the old
\* one; so the insertion leaves Get/Peek/Len/Contains and the recency order
\* as an insertion without growth does: the ring is the old ring with the new
\* slot at its front, every old key keeps its slot and its value.
C26_GrowthPreservesStructure ==
    [][/\ AddGrows =>
              LET c1 == [Cache EXCEPT !.size = size + 1]
                  g == realloc(c1)
              IN  /\ BufLen(g.buf) > BufLen(buf)
                  /\ \A i \in DOMAIN buf : g.buf[i] = buf[i]
                  /\ \A i \in (DOMAIN g.buf) \ (DOMAIN buf) : g.buf[i] = cacheEntry
                  /\ g.elements = elements
                  /\ g.size = c1.size /\ g.maxSize = maxSize /\ g.pc = pc
                  /\ BufLen(buf') = BufLen(g.buf)
                  /\ buf'[0].key = NilKey /\ buf'[0].value = NilValue
                  /\ \E old \in {WalkFrom(buf, buf[0].next, BufLen(buf))},
                        new \in {WalkFrom(buf', buf'[0].next, BufLen(buf'))} :
                         /\ new = <<size'>> \o old
                         /\ buf'[size'].key = lastOp'.key
                         /\ \A i \in 1..Len(old) : buf'[old[i]].key = buf[old[i]].key
                  /\ LRULen(Cache') = LRULen(Cache) + 1
                  /\ \A k \in DOMAIN elements :
                         /\ elements'[k] = elements[k]
                         /\ LRUPeek(Cache', k).ret = LRUPeek(Cache, k).ret
                  /\ \A i \in (DOMAIN buf') \ (0..size') : buf'[i] = cacheEntry
       /\ InternGrows =>
              LET sc1 == [StringCache EXCEPT !.size = scSize + 1]
                  g == StringCacheRealloc(sc1, 0)
              IN  /\ BufLen(g.buf) > BufLen(scBuf)
                  /\ \A i \in DOMAIN scBuf : g.buf[i] = scBuf[i]
                  /\ \A i \in (DOMAIN g.buf) \ (DOMAIN scBuf) : g.buf[i] = stringElem
                  /\ g.values = scValues
                  /\ g.size = sc1.size /\ g.maxSize = scMaxSize /\ g.pc = scPc
                  /\ BufLen(scBuf') = BufLen(g.buf)
                  /\ scBuf'[0].value = EmptyString
                  /\ \E old \in {WalkFrom(scBuf, scBuf[0].next, BufLen(scBuf))},
                        new \in {WalkFrom(scBuf', scBuf'[0].next, BufLen(scBuf'))} :
                         /\ new = <<scSize'>> \o old
                         /\ scBuf'[scSize'].value = scLastOp'.str
                         /\ \A i \in 1..Len(old) : scBuf'[old[i]].value = scBuf[old[i]].value
                  /\ StringCacheLen(StringCache') = StringCacheLen(StringCache) + 1
                  /\ \A c \in DOMAIN scValues :
                         /\ scValues'[c] = scValues[c]
                         /\ scBuf'[scValues'[c]].value = scBuf[scValues[c]].value
                  /\ \A i \in (DOMAIN scBuf') \ (0..scSize') : scBuf'[i] = stringElem
      ]_vars

\* C26 witness: the Add that filled slot 101 of an LRU of capacity 201 has
\* doubled the arena from 101 to 201 slots.
C26_Witness ==
    /\ pc = "ready"
    /\ lastOp.op = "Add"
    /\ size = initialBufMax
    /\ buf[0].next = size
    /\ BufLen(buf) = 2 * initialBufLimit + 1
    /\ maxSize = FromInt(BufLen(buf))

\* This step is an Add of an absent key to a full LRU.
AddEvicts ==
    /\ pc = "ready"
    /\ lastOp'.op = "Add"
    /\ lastOp'.key \notin DOMAIN elements
    /\ FromInt(size) = maxSize

\* This step is an Intern of a string that is not cached on a full StringCache
\* of capacity N >= 1.
InternEvicts ==
    /\ StringCacheReady
    /\ scLastOp'.op = "Intern"
    /\ ~Contains(StringCache, scLastOp'.str)
    /\ FromInt(scSize) = scMaxSize

\* C27: an Add of an absent key when size = capacity removes exactly one key
\* from the lookup table, the one held by slot root.prev, stores the new key
\* and value in that same slot and moves it to the front; size, arena length
\* and every other key's slot index and value are unchanged. Intern does the
\* same with the string as key and value.
C27_EvictionReusesLeastRecentSlot ==
    [][/\ AddEvicts =>
              LET victim == buf[0].prev
                  old == buf[victim].key
              IN  /\ old \in DOMAIN elements
                  /\ DOMAIN elements' = ((DOMAIN elements) \ {old}) \cup {lastOp'.key}
                  /\ evicted' = old
                  /\ elements'[lastOp'.key] = victim
                  /\ buf'[victim].key = lastOp'.key
                  /\ buf'[victim].value = lastOp'.value
                  /\ buf'[0].next = victim
                  /\ size' = size
                  /\ BufLen(buf') = BufLen(buf)
                  /\ \A k \in (DOMAIN elements) \ {old} :
                         /\ elements'[k] = elements[k]
                         /\ buf'[elements[k]].key = k
                         /\ buf'[elements[k]].value = buf[elements[k]].value
       /\ InternEvicts =>
              LET victim == scBuf[0].prev
                  old == scBuf[victim].value.content
              IN  /\ old \in DOMAIN scValues
                  /\ DOMAIN scValues' =
                         ((DOMAIN scValues) \ {old}) \cup {scLastOp'.str.content}
                  /\ scValues'[scLastOp'.str.content] = victim
                  /\ scBuf'[victim].value = scLastOp'.str
                  /\ scBuf'[0].next = victim
                  /\ scSize' = scSize
                  /\ BufLen(scBuf') = BufLen(scBuf)
                  /\ \A c \in (DOMAIN scValues) \ {old} :
                         /\ scValues'[c] = scValues[c]
                         /\ scBuf'[scValues[c]].value = scBuf[scValues[c]].value
      ]_vars

\* C27 witness: on a full LRU of two or more keys an Add has evicted a key
\* from a slot other than the one filled first, which a Get or a second Add
\* had moved to the front before.
C27_Witness ==
    /\ pc = "ready"
    /\ lastOp.op = "Add"
    /\ evicted # NilKey
    /\ size >= 2
    /\ FromInt(size) = maxSize
    /\ elements[lastOp.key] # 1
    /\ buf[0].next = elements[lastOp.key]
    /\ buf[elements[lastOp.key]].value = lastOp.value

\* C28: Prealloc on a StringCache of capacity N >= 1, in any reachable state,
\* sets the arena length to capacity + 1 and changes nothing else: Len,
\* Contains of every string, the recency order, the hit and miss counters and
\* the stored instances are as before and Validate reports no error; and an
\* Intern on an arena of capacity + 1 slots, as every Intern after Prealloc
\* finds it, does not grow it.
C28_PreallocOnlyGrowsTheArena ==
    [][/\ (StringCacheReady /\ scLastOp'.op = "Prealloc") =>
              /\ FromInt(BufLen(scBuf')) = BigAdd(scMaxSize, 1)
              /\ scPc' = "ready"
              /\ scMaxSize' = scMaxSize
              /\ StringCacheLen(StringCache') = StringCacheLen(StringCache)
              /\ HitCounts(StringCache') = HitCounts(StringCache)
              /\ scValues' = scValues
              /\ \A c \in Contents \cup (DOMAIN scValues) \cup (DOMAIN scValues') :
                     Contains(StringCache', String(c, 1)) = Contains(StringCache, String(c, 1))
              /\ \A i \in DOMAIN scBuf : scBuf'[i] = scBuf[i]
              /\ \A i \in (DOMAIN scBuf') \ (DOMAIN scBuf) : scBuf'[i] = stringElem
              /\ \E old \in {WalkFrom(scBuf, scBuf[0].next, BufLen(scBuf))},
                    new \in {WalkFrom(scBuf', scBuf'[0].next, BufLen(scBuf'))} : new = old
              /\ \E err \in {Validate(StringCache')} : err = ValidateOk
       /\ (StringCacheReady /\ scLastOp'.op = "Intern"
              /\ FromInt(BufLen(scBuf)) = BigAdd(scMaxSize, 1)) =>
              BufLen(scBuf') = BufLen(scBuf)
      ]_vars

\* C28 witness: a StringCache of capacity 301 holds more than 101 strings in
\* an arena of 302 slots: Prealloc was called while the arena had 101 slots,
\* and the Intern calls since then have not grown it (growth would have made
\* it 301 slots).
C28_Witness ==
    /\ StringCacheReady
    /\ scLastOp.op = "Intern"
    /\ scSize > initialBufMax
    /\ scMaxSize = FromInt(3 * initialBufLimit + 1)
    /\ FromInt(BufLen(scBuf)) = BigAdd(scMaxSize, 1)

\* Invariants 2 to 4 of the data model on a StringCache structure: following
\* next from the root meets exactly size slots and comes back to the root,
\* following prev meets them in reverse order; the links of every live slot
\* are symmetric; the lookup table maps each live slot's string to the slot,
\* maps nothing else and has size entries.
StructureInvariants(sc) ==
    \E fwd \in {WalkFrom(sc.buf, sc.buf[0].next, BufLen(sc.buf))},
       back \in {WalkBackFrom(sc.buf, sc.buf[0].prev, BufLen(sc.buf))} :
        /\ Len(fwd) = sc.size
        /\ Len(fwd) < BufLen(sc.buf)
        /\ back = Reverse(fwd)
        /\ \A s \in Range(fwd) :
               /\ sc.buf[sc.buf[s].prev].next = s
               /\ sc.buf[sc.buf[s].next].prev = s
        /\ \A s \in Range(fwd) :
               /\ sc.buf[s].value.content \in DOMAIN sc.values
               /\ sc.values[sc.buf[s].value.content] = s
        /\ \A c \in DOMAIN sc.values :
               /\ sc.values[c] \in Range(fwd)
               /\ sc.buf[sc.values[c]].value.content = c
        /\ Cardinality(DOMAIN sc.values) = sc.size

\* C29: on every StringCache structure whose indices are all in range,
\* reachable or corrupted, Validate terminates, returns no error exactly when
\* invariants 2 to 4 hold and returns an error whenever one of them is
\* violated.
C29_ValidateDecidesTheInvariants ==
    scLastOp.op = "Validate" =>
        /\ scRet.err \notin ValidateAborts
        /\ scRet.err = ValidateOk <=> StructureInvariants(StringCache)

\* One direction alone: whenever Validate returns no error the invariants hold.
ValidateNeverMissesAViolation ==
    (scLastOp.op = "Validate" /\ scRet.err = ValidateOk) => StructureInvariants(StringCache)

\* The other direction: Validate returns no error on every structure that
\* satisfies the invariants.
ValidateAcceptsEveryIntactStructure ==
    (scLastOp.op = "Validate" /\ StructureInvariants(StringCache)) => scRet.err = ValidateOk

\* C30: the StringCache is the LRU engine with key equal to value. For every
\* capacity N >= 1 and every sequence of Intern calls, the cached strings,
\* their recency order and Len() are those of an arena LRU of the same
\* capacity on which each Intern(s) is made as Get(s) if it hits, else
\* Add(s, s); whatever the two arenas' lengths. The two also agree on which
\* calls hit and on the instance stored for each string.
C30_StringCacheIsLRUOfStrings ==
    (pc = "ready" /\ scPc = "ready") =>
        /\ DOMAIN scValues = DOMAIN elements
        /\ KeysFromStringRoot(StringCache) = KeysFromRoot
        /\ StringCacheLen(StringCache) = LRULen(Cache)
        /\ \A c \in DOMAIN scValues :
               scBuf[scValues[c]].value = buf[elements[c]].value
        /\ scLastOp.op = "Intern" =>
               /\ scHist.wasCached <=> lastOp.op = "Get"
               /\ lastOp.op = "Get" => ret = Found(scRet.str)

\* C30 witness: the two arenas have grown to different lengths, and an Intern
\* of a string interned before the growth has hit in both caches.
C30_Witness ==
    /\ pc = "ready"
    /\ scPc = "ready"
    /\ scLastOp.op = "Intern"
    /\ lastOp.op = "Get"
    /\ ret.found
    /\ scSize > initialBufLimit
    /\ BufLen(buf) > initialBufMax
    /\ BufLen(scBuf) > BufLen(buf)
    /\ scLastOp.str.content = 1

\* moveToFront(elem) on arena b goes past its early return and finds
\* entry.prev = 0, so it does not unlink the slot before linking it in front.
SkipsUnlink(b, elem) == b[0].next # elem /\ b[elem].prev = 0

\* The slots 1..n of arena b are the live ones: the one at root.next, and no
\* other, has prev = 0, and moveToFront unlinks every one that is not at the
\* front. The slots above n are as make left them, prev = next = 0, and
\* moveToFront does not unlink them.
OnlyNewSlotsSkipUnlink(b, n) ==
    /\ \A s \in 1..n :
           /\ b[s].prev = 0 <=> b[0].next = s
           /\ ~SkipsUnlink(b, s)
    /\ \A s \in (DOMAIN b) \ (0..n) :
           /\ b[s].prev = 0
           /\ b[s].next = 0
           /\ SkipsUnlink(b, s)

\* C31: in every reachable state of the arena LRU and of the StringCache
\* (capacity N >= 1), the only live slot whose prev index is 0 is the slot at
\* root.next, and every slot with index greater than size has prev = next = 0,
\* also right after growth; hence moveToFront skips the unlink step only for
\* a brand-new slot and never for a live slot that is linked elsewhere.
C31_UnlinkSkippedOnlyForNewSlot ==
    /\ pc = "ready" => OnlyNewSlotsSkipUnlink(buf, size)
    /\ StringCacheReady => OnlyNewSlotsSkipUnlink(scBuf, scSize)

\* C31 witness: the Add that grew the arena of an LRU has linked the brand-new
\* slot initialBufMax in front of initialBufLimit live slots, and the slots
\* the growth added above it are free.
C31_Witness ==
    /\ pc = "ready"
    /\ lastOp.op = "Add"
    /\ size = initialBufMax
    /\ BufLen(buf) > initialBufMax + 1
    /\ buf[0].next = size
    /\ buf[size].next = initialBufLimit
    /\ buf[0].prev = 1

\* C32: retention. In an arena LRU of capacity N >= 1 a key that has been
\* touched, by an Add of it or by a Get that hit it, is still cached (Peek
\* reports found) as long as fewer than N distinct other keys have been
\* touched since its last touch; it is never evicted earlier. touched[i] has
\* had i - 1 distinct other keys touched since its last touch.
C32_TouchedKeyIsRetained ==
    pc = "ready" =>
        \A i \in 1..Len(touched) :
            BigLT(FromInt(i - 1), maxSize) => LRUPeek(Cache, touched[i]).ret.found

\* C32 witness: on a cache of capacity 2 that has evicted a key, Peek has found
\* the key with exactly one other key touched since its last touch.
C32_Witness ==
    /\ pc = "ready"
    /\ maxSize = FromInt(2)
    /\ Len(touched) > 2
    /\ lastOp.op = "Peek"
    /\ lastOp.key = touched[2]
    /\ ret.found
    /\ evicted = NilKey

====
